---- MODULE Spec2Model ----
(***************************************************************************)
(* Model of backend/gatekeeper/judge.py: the entry-level ATS analyzer.     *)
(*                                                                         *)
(* Texts (provider replies, resumes) are sequences of symbols.  A symbol   *)
(* is one character of punctuation (a brace, a quote, a comma) or one atom  *)
(* standing for a run of letters or digits (candidate_name, 75).  Every    *)
(* text function of the source is computed over these sequences the way    *)
(* the source computes it over characters.                                 *)
(***************************************************************************)
EXTENDS Integers, Sequences, FiniteSets, TLC

\* ------------------------------------------------------------------------
\* Symbols
\* ------------------------------------------------------------------------
LB == "{"
RB == "}"
LK == "["
RK == "]"
CM == ","
CL == ":"
Q  == "\""
BS == "\\"
SP == " "
NL == "\n"
LDQ == "ldquo"
RDQ == "rdquo"
RSQ == "rsquo"
APO == "'"
FENCEJSON == "fence_json"
FENCE == "fence"

Whitespace == {SP, NL}

\* Runs of digits are atoms; DigitVal is int() of the run.
DigitAtoms == {"0", "5", "72", "75", "78", "80", "90", "150"}

DigitVal(a) ==
    CASE a = "0" -> 0
      [] a = "5" -> 5
      [] a = "72" -> 72
      [] a = "75" -> 75
      [] a = "78" -> 78
      [] a = "80" -> 80
      [] a = "90" -> 90
      [] a = "150" -> 150

\* ------------------------------------------------------------------------
\* JSON values (what json.loads returns and what the handlers build)
\* ------------------------------------------------------------------------
JStr(s)  == [t |-> "str", s |-> s]
JNum(n)  == [t |-> "num", n |-> n]
JArr(a)  == [t |-> "arr", a |-> a]
JObj(m)  == [t |-> "obj", m |-> m]
JNull    == [t |-> "lit", l |-> "null"]
JTrue    == [t |-> "lit", l |-> "true"]
JFalse   == [t |-> "lit", l |-> "false"]

\* A Python str holding one atom.
S(a) == JStr(<<a>>)
EmptyStr == JStr(<< >>)
EmptyMap == [k \in {} |-> JNull]

\* dict literal {k1: v1, k2: v2, ...} from a sequence of <<key atom, value>>
DictOf(pairs) ==
    JObj([k \in {<<pairs[i][1]>> : i \in 1..Len(pairs)} |->
            pairs[CHOOSE i \in 1..Len(pairs) : <<pairs[i][1]>> = k][2]])

Dict(pairs) == CHOOSE d \in {DictOf(p) : p \in {pairs}} : TRUE

\* ------------------------------------------------------------------------
\* str helpers
\* ------------------------------------------------------------------------
MinOf(X) == CHOOSE x \in X : \A y \in X : x <= y
MaxOf(X) == CHOOSE x \in X : \A y \in X : x >= y

\* str.strip()
StripOf(t) ==
    IF \A i \in 1..Len(t) : t[i] \in Whitespace THEN << >>
    ELSE SubSeq(t, MinOf({i \in 1..Len(t) : t[i] \notin Whitespace}),
                   MaxOf({i \in 1..Len(t) : t[i] \notin Whitespace}))

Strip(t) == CHOOSE r \in {StripOf(x) : x \in {t}} : TRUE

\* str.rstrip()
RStripOf(t) ==
    IF \A i \in 1..Len(t) : t[i] \in Whitespace THEN << >>
    ELSE SubSeq(t, 1, MaxOf({i \in 1..Len(t) : t[i] \notin Whitespace}))

RStrip(t) == CHOOSE r \in {RStripOf(x) : x \in {t}} : TRUE

\* str.find(pat): first index (1-based) or 0 when absent (Python: -1)
Find(t, pat) ==
    CHOOSE r \in
        {IF hits = {} THEN 0 ELSE MinOf(hits) :
            hits \in {{i \in 1..(Len(t) - Len(pat) + 1) : SubSeq(t, i, i + Len(pat) - 1) = pat}}} : TRUE

\* str.rfind(ch) for a single symbol: last index or 0 when absent
RFind(t, ch) ==
    CHOOSE r \in
        {IF hits = {} THEN 0 ELSE MaxOf(hits) :
            hits \in {{i \in 1..Len(t) : t[i] = ch}}} : TRUE

\* index of the first non-whitespace symbol at or after i (Len(t)+1 if none)
RECURSIVE SkipWs(_, _)
SkipWs(t, i) ==
    IF i > Len(t) THEN Len(t) + 1
    ELSE IF t[i] \in Whitespace THEN SkipWs(t, i + 1)
    ELSE i

\* ------------------------------------------------------------------------
\* The loops over the characters of a text, one iteration each
\* ------------------------------------------------------------------------
\* json.loads: one character of the body of a string literal; st = "in" while scanning,
\* "esc" after a backslash, "end" once the closing quote was read, "bad" on
\* a raw newline or an unknown escape
StringStep(t, j, s) ==
    IF s.st \in {"end", "bad"} THEN s
    ELSE IF s.st = "esc" THEN
        IF t[j] \in {Q, BS} THEN [s EXCEPT !.st = "in", !.acc = Append(@, t[j])]
        ELSE [s EXCEPT !.st = "bad"]
    ELSE IF t[j] = Q THEN [s EXCEPT !.st = "end", !.i = j + 1]
    ELSE IF t[j] = NL THEN [s EXCEPT !.st = "bad"]
    ELSE IF t[j] = BS THEN [s EXCEPT !.st = "esc"]
    ELSE [s EXCEPT !.acc = Append(@, t[j])]

ExtractStep_NoEscape(text, i, s) ==
    IF s.end # 0 THEN s
    ELSE IF text[i] = Q THEN [s EXCEPT !.in_string = ~@]
    ELSE IF s.in_string THEN s
    ELSE IF text[i] = LB THEN [s EXCEPT !.depth = @ + 1]
    ELSE IF text[i] = RB THEN
        IF s.depth - 1 = 0 THEN [s EXCEPT !.depth = 0, !.end = i]
        ELSE [s EXCEPT !.depth = @ - 1]
    ELSE s

\* _extract_first_json_object: one iteration of the for loop; end is the index at which it returned
ExtractStep(text, i, s) ==
    IF s.end # 0 THEN s
    ELSE IF s.escape_next THEN [s EXCEPT !.escape_next = FALSE]
    ELSE IF text[i] = BS THEN [s EXCEPT !.escape_next = TRUE]
    ELSE IF text[i] = Q THEN [s EXCEPT !.in_string = ~@]
    ELSE IF s.in_string THEN s
    ELSE IF text[i] = LB THEN [s EXCEPT !.depth = @ + 1]
    ELSE IF text[i] = RB THEN
        IF s.depth - 1 = 0 THEN [s EXCEPT !.depth = 0, !.end = i]
        ELSE [s EXCEPT !.depth = @ - 1]
    ELSE s

TrailingCommaStep_NoSpace(t, i, s) ==
    IF i < s.next THEN s
    ELSE IF t[i] = CM /\ i < Len(t) /\ t[i + 1] \in {RB, RK}
         THEN [acc |-> Append(s.acc, t[i + 1]), next |-> i + 2]
         ELSE [s EXCEPT !.acc = Append(@, t[i])]

\* _repair_common_json_issues: re.sub scans left to right; next is the index after the last match
TrailingCommaStep(t, i, s) ==
    IF i < s.next THEN s
    ELSE IF t[i] = CM THEN
        LET j == SkipWs(t, i + 1)
        IN IF j <= Len(t) /\ t[j] \in {RB, RK}
           THEN [acc |-> Append(s.acc, t[j]), next |-> j + 1]
           ELSE [s EXCEPT !.acc = Append(@, t[i])]
    ELSE [s EXCEPT !.acc = Append(@, t[i])]

AtLineStart(t, i) == i = 1 \/ t[i - 1] = NL
AtLineEnd(t, i) == i = Len(t) \/ t[i + 1] = NL

\* the two re.sub calls that drop the code fences (same scan)
FenceOpenStep(t, i, s) ==
    IF i < s.next THEN s
    ELSE IF t[i] = FENCEJSON /\ AtLineStart(t, i)
         THEN [s EXCEPT !.next = SkipWs(t, i + 1)]
         ELSE [s EXCEPT !.acc = Append(@, t[i])]

FenceCloseStep(t, i, s) ==
    IF i < s.next THEN s
    ELSE
        LET j == SkipWs(t, i)
        IN IF j <= Len(t) /\ t[j] = FENCE /\ AtLineEnd(t, j)
           THEN [s EXCEPT !.next = j + 1]
           ELSE [s EXCEPT !.acc = Append(@, t[i])]

Step(loop, t, i, s) ==
    CASE loop = "string" -> StringStep(t, i, s)
      [] loop = "extract" -> ExtractStep(t, i, s)
      [] loop = "trailing_comma" -> TrailingCommaStep(t, i, s)
      [] loop = "fence_open" -> FenceOpenStep(t, i, s)
      [] loop = "fence_close" -> FenceCloseStep(t, i, s)

\* A loop "for i in range(lo, hi + 1)" over text t: the state after the last
\* iteration, Step(loop, t, i, s) being the state after iteration i from s.
\* (Evaluated by halving the range, which keeps the evaluation shallow.)
\*
\* Here and below, CHOOSE r \in {F(x) : x \in {e}} : TRUE is F(e) with e
\* evaluated once, however often F uses it.
RECURSIVE ForRange(_, _, _, _, _)
ForRange(loop, t, lo, hi, s) ==
    IF lo > hi THEN s
    ELSE IF lo = hi THEN Step(loop, t, lo, s)
    ELSE CHOOSE last \in
            {ForRange(loop, t, ((lo + hi) \div 2) + 1, hi, left) :
                left \in {ForRange(loop, t, lo, (lo + hi) \div 2, s)}} : TRUE

\* ------------------------------------------------------------------------
\* json.loads
\* ------------------------------------------------------------------------
Fail == [ok |-> FALSE, v |-> JNull, i |-> 0]
Ok(v, i) == [ok |-> TRUE, v |-> v, i |-> i]

\* body of a string literal, from the symbol after the opening quote
ScanString(t, j) ==
    CHOOSE r \in
        {IF s.st = "end" THEN Ok(JStr(s.acc), s.i) ELSE Fail :
            s \in {ForRange("string", t, j, Len(t), [st |-> "in", acc |-> << >>, i |-> 0])}} : TRUE

RECURSIVE ParseValue(_, _), ParseMembers(_, _, _), ParseElements(_, _, _)
RECURSIVE MemberValue(_, _, _), MemberEnd(_, _, _, _), ElementEnd(_, _, _)

ParseValue(t, i) ==
    IF i > Len(t) THEN Fail
    ELSE IF t[i] = Q THEN ScanString(t, i + 1)
    ELSE IF t[i] \in DigitAtoms THEN Ok(JNum(DigitVal(t[i])), i + 1)
    ELSE IF t[i] = "null" THEN Ok(JNull, i + 1)
    ELSE IF t[i] = "true" THEN Ok(JTrue, i + 1)
    ELSE IF t[i] = "false" THEN Ok(JFalse, i + 1)
    ELSE IF t[i] = LB THEN
        IF SkipWs(t, i + 1) <= Len(t) /\ t[SkipWs(t, i + 1)] = RB
        THEN Ok(JObj(EmptyMap), SkipWs(t, i + 1) + 1)
        ELSE ParseMembers(t, SkipWs(t, i + 1), EmptyMap)
    ELSE IF t[i] = LK THEN
        IF SkipWs(t, i + 1) <= Len(t) /\ t[SkipWs(t, i + 1)] = RK
        THEN Ok(JArr(<< >>), SkipWs(t, i + 1) + 1)
        ELSE ParseElements(t, SkipWs(t, i + 1), << >>)
    ELSE Fail

\* members of an object, i at the opening quote of the next key
ParseMembers(t, i, m) ==
    IF i > Len(t) \/ t[i] # Q THEN Fail
    ELSE CHOOSE r \in {MemberValue(t, key, m) : key \in {ScanString(t, i + 1)}} : TRUE

\* after the key: the colon and the value
MemberValue(t, key, m) ==
    IF ~key.ok THEN Fail
    ELSE IF SkipWs(t, key.i) > Len(t) \/ t[SkipWs(t, key.i)] # CL THEN Fail
    ELSE CHOOSE r \in
            {MemberEnd(t, key, val, m) :
                val \in {ParseValue(t, SkipWs(t, SkipWs(t, key.i) + 1))}} : TRUE

\* after the value: the closing brace, or a comma and the next member
MemberEnd(t, key, val, m) ==
    IF ~val.ok THEN Fail
    ELSE IF SkipWs(t, val.i) > Len(t) THEN Fail
    ELSE IF t[SkipWs(t, val.i)] = RB
         THEN Ok(JObj((key.v.s :> val.v) @@ m), SkipWs(t, val.i) + 1)
    ELSE IF t[SkipWs(t, val.i)] = CM
         THEN CHOOSE r \in
                {ParseMembers(t, SkipWs(t, SkipWs(t, val.i) + 1), m2) :
                    m2 \in {(key.v.s :> val.v) @@ m}} : TRUE
    ELSE Fail

\* elements of an array, i at the first symbol of the next element
ParseElements(t, i, a) ==
    CHOOSE r \in {ElementEnd(t, val, a) : val \in {ParseValue(t, i)}} : TRUE

\* after the element: the closing bracket, or a comma and the next element
ElementEnd(t, val, a) ==
    IF ~val.ok THEN Fail
    ELSE IF SkipWs(t, val.i) > Len(t) THEN Fail
    ELSE IF t[SkipWs(t, val.i)] = RK THEN Ok(JArr(Append(a, val.v)), SkipWs(t, val.i) + 1)
    ELSE IF t[SkipWs(t, val.i)] = CM
         THEN CHOOSE r \in
                {ParseElements(t, SkipWs(t, SkipWs(t, val.i) + 1), a2) :
                    a2 \in {Append(a, val.v)}} : TRUE
    ELSE Fail

\* json.loads(text): [ok, v]; ok = FALSE is json.JSONDecodeError
LoadsResult(t, r) ==
    IF r.ok /\ SkipWs(t, r.i) > Len(t) THEN [ok |-> TRUE, v |-> r.v]
    ELSE [ok |-> FALSE, v |-> JNull]

LoadsText(t) ==
    CHOOSE d \in {LoadsResult(t, r) : r \in {ParseValue(t, SkipWs(t, 1))}} : TRUE

JsonLoads(t) == CHOOSE d \in {LoadsText(x) : x \in {t}} : TRUE

\* ------------------------------------------------------------------------
\* Optional str (str | None): some = FALSE is None
\* ------------------------------------------------------------------------
NoneStr == [some |-> FALSE, s |-> << >>]
SomeStr(s) == [some |-> TRUE, s |-> s]

\* ------------------------------------------------------------------------
\* _extract_first_json_object
\* ------------------------------------------------------------------------
\* the for loop from index start; the index of the matching "}" or 0
ExtractScan(text, start) ==
    ForRange("extract", text, start, Len(text),
        [depth |-> 0, in_string |-> FALSE, escape_next |-> FALSE, end |-> 0]).end

ExtractFrom(text, start) ==
    IF start = 0 THEN NoneStr
    ELSE CHOOSE r \in
            {IF end = 0 THEN NoneStr ELSE SomeStr(SubSeq(text, start, end)) :
                end \in {ExtractScan(text, start)}} : TRUE

_extract_first_json_object(text) ==
    IF text = << >> THEN NoneStr
    ELSE CHOOSE r \in {ExtractFrom(text, start) : start \in {Find(text, <<LB>>)}} : TRUE

\* ------------------------------------------------------------------------
\* _repair_common_json_issues
\* ------------------------------------------------------------------------
\* .replace of the three typographic quotes
ReplaceSmartQuotes(t) ==
    [i \in 1..Len(t) |->
        IF t[i] \in {LDQ, RDQ} THEN Q
        ELSE IF t[i] = RSQ THEN APO
        ELSE t[i]]

\* re.sub(r",\s*([}\]])", r"\1", t): leftmost non-overlapping matches
SubTrailingCommas(t) ==
    CHOOSE r \in
        {ForRange("trailing_comma", x, 1, Len(x), [acc |-> << >>, next |-> 1]).acc :
            x \in {t}} : TRUE

_repair_common_json_issues(text) ==
    IF text = << >> THEN text
    ELSE SubTrailingCommas(ReplaceSmartQuotes(Strip(text)))

\* ------------------------------------------------------------------------
\* Letter case of atoms: str.lower(), str.upper(), str.startswith
\* ------------------------------------------------------------------------
Lower(a) ==
    CASE a = "Shortlist" -> "shortlist"
      [] a = "SHORTLIST" -> "shortlist"
      [] a = "Borderline" -> "borderline"
      [] a = "Reject" -> "reject"
      [] a = "Rejected" -> "rejected"
      [] a = "ERROR" -> "error"
      [] a = "PASS" -> "pass"
      [] a = "Pass" -> "pass"
      [] a = "Intern" -> "intern"
      [] a = "GitHub" -> "github"
      [] a = "Python" -> "python"
      [] a = "AWS" -> "aws"
      [] OTHER -> a

Upper(a) ==
    CASE Lower(a) = "shortlist" -> "SHORTLIST"
      [] Lower(a) = "borderline" -> "BORDERLINE"
      [] Lower(a) = "reject" -> "REJECT"
      [] Lower(a) = "rejected" -> "REJECTED"
      [] Lower(a) = "error" -> "ERROR"
      [] Lower(a) = "pass" -> "PASS"
      [] OTHER -> a

\* s.startswith(prefix) for a lower-cased str s and prefix in {short, border, reject}
StartsWith(s, prefix) ==
    /\ s # << >>
    /\ \/ prefix = "short" /\ s[1] \in {"shortlist", "short"}
       \/ prefix = "border" /\ s[1] \in {"borderline", "border"}
       \/ prefix = "reject" /\ s[1] \in {"reject", "rejected"}

LowerStr(s) == [i \in 1..Len(s) |-> Lower(s[i])]
UpperStr(s) == [i \in 1..Len(s) |-> Upper(s[i])]

\* ------------------------------------------------------------------------
\* _salvage_minimal_ats_payload
\* ------------------------------------------------------------------------
\* positions where  "key"\s*:\s*  matches; the value starts at ValueStart
KeyMatches(text, key) ==
    {i \in 1..(Len(text) - 2) :
        /\ SubSeq(text, i, i + 2) = <<Q, key, Q>>
        /\ LET c == SkipWs(text, i + 3)
           IN c <= Len(text) /\ text[c] = CL}

ValueStart(text, i) == SkipWs(text, SkipWs(text, i + 3) + 1)

\* re.search(r'"key"\s*:\s*"([^"]*)', text): [found, s] with s = group(1)
StrGroup(text, q) ==
    CHOOSE r \in
        {[found |-> TRUE,
          s |-> SubSeq(text, q + 1, (IF closers = {} THEN Len(text) + 1 ELSE MinOf(closers)) - 1)] :
            closers \in {{j \in (q + 1)..Len(text) : text[j] = Q}}} : TRUE

SearchStrField(text, key) ==
    CHOOSE r \in
        {IF hits = {} THEN [found |-> FALSE, s |-> << >>]
         ELSE StrGroup(text, ValueStart(text, MinOf(hits))) :
            hits \in {{i \in KeyMatches(text, key) :
                        ValueStart(text, i) <= Len(text) /\ text[ValueStart(text, i)] = Q}}} : TRUE

\* re.search(r'"key"\s*:\s*(\d+)', text): [found, n] with n = int(group(1))
SearchNumField(text, key) ==
    CHOOSE r \in
        {IF hits = {} THEN [found |-> FALSE, n |-> 0]
         ELSE [found |-> TRUE, n |-> DigitVal(text[ValueStart(text, MinOf(hits))])] :
            hits \in {{i \in KeyMatches(text, key) :
                        ValueStart(text, i) <= Len(text)
                            /\ text[ValueStart(text, i)] \in DigitAtoms}}} : TRUE

\* the verdict of the minimal payload, from the match of the verdict field
VerdictOf(m) ==
    IF ~m.found THEN "ERROR"
    ELSE CHOOSE r \in
            {IF StartsWith(raw, "short") THEN "Shortlist"
             ELSE IF StartsWith(raw, "border") THEN "Borderline"
             ELSE IF StartsWith(raw, "reject") THEN "Reject"
             ELSE "ERROR" :
                raw \in {LowerStr(Strip(m.s))}} : TRUE

SalvageVerdict(text) ==
    CHOOSE r \in {VerdictOf(m) : m \in {SearchStrField(text, "verdict")}} : TRUE

\* the dict literal returned, from the candidate name and the score found
MinimalPayload(name, score, verdict) ==
    Dict(<<
        <<"candidate_name", name>>,
        <<"overall_score", JNum(score)>>,
        <<"verdict", S(verdict)>>,
        <<"track_scores", Dict(<<
            <<"product_based", JNum(score)>>,
            <<"service_based", JNum(score)>>,
            <<"incubator_startup", JNum(score)>> >>)>>,
        <<"detailed_analysis", Dict(<<
            <<"strengths", JArr(<< >>)>>,
            <<"weaknesses", JArr(<<S("Model response was truncated before full JSON could be returned.")>>)>>,
            <<"actionable_improvements", JArr(<<S("Retry once. If it repeats, shorten resume text or reduce traffic.")>>)>> >>)>>,
        <<"interview_questions", Dict(<<
            <<"technical", S("None")>>,
            <<"behavioral", S("None")>> >>)>> >>)

\* the name without its default
SalvagedName_NoDefault(mn) == JStr(Strip(mn.s))

SalvagedName(mn) ==
    IF mn.found /\ Strip(mn.s) # << >> THEN JStr(Strip(mn.s)) ELSE S("Unknown")

SalvagedScore(ms) == IF ms.found THEN ms.n ELSE 0

_salvage_minimal_ats_payload(text) ==
    CHOOSE payload \in
        {MinimalPayload(name, score, verdict) :
            name \in {SalvagedName(SearchStrField(text, "candidate_name"))},
            score \in {SalvagedScore(SearchNumField(text, "overall_score"))},
            verdict \in {SalvageVerdict(text)}} : TRUE

\* ------------------------------------------------------------------------
\* _salvage_without_detailed_analysis
\* ------------------------------------------------------------------------
NoneVal == [some |-> FALSE, v |-> JNull]
SomeVal(v) == [some |-> TRUE, v |-> v]

minimal_tail ==
    <<Q, "detailed_analysis", Q, CL, SP, LB,
        Q, "strengths", Q, CL, SP, LK, RK, CM,
        Q, "weaknesses", Q, CL, SP, LK, RK, CM,
        Q, "actionable_improvements", Q, CL, SP, LK, RK,
      RB, CM,
      Q, "interview_questions", Q, CL, SP, LB,
        Q, "technical", Q, CL, SP, Q, Q, CM,
        Q, "behavioral", Q, CL, SP, Q, Q,
      RB,
      RB>>

EndsWith(t, ch) == t # << >> /\ t[Len(t)] = ch

\* prefix: the text before the detailed_analysis key, without a trailing comma
SalvagePrefix(stripped) ==
    IF EndsWith(stripped, CM) THEN SubSeq(stripped, 1, Len(stripped) - 1) ELSE stripped

\* json_text: the prefix, cut after its last comma when that comma follows
\* its last opening brace, completed with minimal_tail
SalvageJsonText(prefix) ==
    IF EndsWith(Strip(prefix), LB) THEN prefix \o minimal_tail
    ELSE IF RFind(prefix, CM) > RFind(prefix, LB)
         THEN SubSeq(prefix, 1, RFind(prefix, CM)) \o minimal_tail
         ELSE prefix \o minimal_tail

SalvageFrom(text, idx) ==
    IF idx = 0 THEN NoneVal
    ELSE CHOOSE r \in
            {IF parsed.ok THEN SomeVal(parsed.v) ELSE NoneVal :
                parsed \in
                    {JsonLoads(_repair_common_json_issues(json_text)) :
                        json_text \in
                            {SalvageJsonText(prefix) :
                                prefix \in {SalvagePrefix(RStrip(SubSeq(text, 1, idx - 1)))}}}} : TRUE

_salvage_without_detailed_analysis(text) ==
    CHOOSE r \in {SalvageFrom(text, idx) : idx \in {Find(text, <<Q, "detailed_analysis", Q>>)}} : TRUE

\* ------------------------------------------------------------------------
\* Python operators on JSON values
\* ------------------------------------------------------------------------
IsDict(v) == v.t = "obj"
HasKey(v, k) == <<k>> \in DOMAIN v.m
Get(v, k) == v.m[<<k>>]
\* dict.get(k): None when the key is absent
GetOrNone(v, k) == IF HasKey(v, k) THEN Get(v, k) ELSE JNull

\* bool(v)
Truthy(v) ==
    CASE v.t = "str" -> v.s # << >>
      [] v.t = "num" -> v.n # 0
      [] v.t = "arr" -> v.a # << >>
      [] v.t = "obj" -> DOMAIN v.m # {}
      [] v.t = "lit" -> v.l = "true"

\* k in v: "yes", "no" or "TypeError" (v is not a container)
PyIn(k, v) ==
    CASE v.t = "obj" -> IF HasKey(v, k) THEN "yes" ELSE "no"
      [] v.t = "arr" -> IF \E i \in 1..Len(v.a) : v.a[i] = S(k) THEN "yes" ELSE "no"
      [] v.t = "str" -> IF \E i \in 1..Len(v.s) : v.s[i] = k THEN "yes" ELSE "no"
      [] OTHER -> "TypeError"

\* ------------------------------------------------------------------------
\* Outcomes of a piece of code: a value, or an exception
\* ------------------------------------------------------------------------
Return(v) == [kind |-> "return", v |-> v, type |-> "", msg |-> ""]
Raise(type, msg) == [kind |-> "raise", v |-> JNull, type |-> type, msg |-> msg]

\* ------------------------------------------------------------------------
\* _normalize_to_ats_schema
\* ------------------------------------------------------------------------
\* int(score) if str(score).isdigit() else 0
\* (no str in the model holds two adjacent digit atoms)
ScoreOrZero(score) ==
    CASE score.t = "num" /\ score.n >= 0 -> score.n
      [] score.t = "str" /\ Len(score.s) = 1 /\ score.s[1] \in DigitAtoms -> DigitVal(score.s[1])
      [] OTHER -> 0

LegacyVerdict(verdict_raw) ==
    LET up == UpperStr(verdict_raw)
    IN IF up \in {<<"PASS">>, <<"SHORTLIST">>} THEN "Shortlist"
       ELSE IF up = <<"BORDERLINE">> THEN "Borderline"
       ELSE IF up \in {<<"REJECTED">>, <<"REJECT">>} THEN "Reject"
       ELSE IF up = <<"ERROR">> THEN "ERROR"
       ELSE "Reject"

NormalizeLegacy(data) ==
    LET score == IF HasKey(data, "signal_score") THEN Get(data, "signal_score") ELSE JNum(0)
        v0 == GetOrNone(data, "verdict")
        v1 == IF Truthy(v0) THEN v0 ELSE EmptyStr
        red == GetOrNone(data, "red_flags")
        weaknesses == IF red.t = "arr" THEN red ELSE JArr(<< >>)
        iq == GetOrNone(data, "interview_question")
        technical_q == IF Truthy(iq) THEN iq ELSE S("None")
        n == ScoreOrZero(score)
    IN IF v1.t # "str" THEN Raise("AttributeError", "strip")
       ELSE Return(Dict(<<
        <<"candidate_name",
            IF HasKey(data, "candidate_name") THEN Get(data, "candidate_name") ELSE S("Unknown")>>,
        <<"overall_score", JNum(n)>>,
        <<"verdict", S(LegacyVerdict(Strip(v1.s)))>>,
        <<"track_scores", Dict(<<
            <<"product_based", JNum(n)>>,
            <<"service_based", JNum(n)>>,
            <<"incubator_startup", JNum(n)>> >>)>>,
        <<"detailed_analysis", Dict(<<
            <<"strengths", JArr(<< >>)>>,
            <<"weaknesses",
                IF Truthy(weaknesses) THEN weaknesses
                ELSE JArr(<<S("Model returned legacy schema; normalized automatically.")>>)>>,
            <<"actionable_improvements", JArr(<< >>)>> >>)>>,
        <<"interview_questions", Dict(<<
            <<"technical", technical_q>>,
            <<"behavioral",
                S("Tell me about a time you worked with a team under a deadline. What did you do?")>> >>)>> >>))

_normalize_to_ats_schema_Wrapping(data) ==
    IF ~IsDict(data) THEN Return(JArr(<<data>>))
    ELSE IF HasKey(data, "overall_score") /\ HasKey(data, "track_scores")
            /\ HasKey(data, "detailed_analysis") THEN Return(data)
    ELSE IF HasKey(data, "signal_score")
            /\ (HasKey(data, "red_flags") \/ HasKey(data, "brutal_feedback"))
         THEN NormalizeLegacy(data)
    ELSE Return(data)

_normalize_to_ats_schema(data) ==
    IF ~IsDict(data) THEN Return(data)
    ELSE IF HasKey(data, "overall_score") /\ HasKey(data, "track_scores")
            /\ HasKey(data, "detailed_analysis") THEN Return(data)
    ELSE IF HasKey(data, "signal_score")
            /\ (HasKey(data, "red_flags") \/ HasKey(data, "brutal_feedback"))
         THEN NormalizeLegacy(data)
    ELSE Return(data)

\* ------------------------------------------------------------------------
\* _guess_candidate_name, _local_ats_fallback
\* ------------------------------------------------------------------------
\* the first line of t that is not blank, stripped (<< >> when there is none)
RECURSIVE FirstLine(_)
FirstLine(t) ==
    IF t = << >> THEN << >>
    ELSE
        LET nl == Find(t, <<NL>>)
            line == Strip(IF nl = 0 THEN t ELSE SubSeq(t, 1, nl - 1))
        IN IF line # << >> THEN line
           ELSE IF nl = 0 THEN << >>
           ELSE FirstLine(SubSeq(t, nl + 1, Len(t)))

\* len(first.split())
WordCount(line) == Cardinality({i \in 1..Len(line) : line[i] \notin Whitespace})

\* first[:80] is first for the lines of the model (all shorter than 80 characters)
_guess_candidate_name(resume_text) ==
    LET first == FirstLine(resume_text)
    IN IF first = << >> THEN S("Unknown")
       ELSE IF WordCount(first) <= 5 THEN JStr(first)
       ELSE S("Unknown")

\* atoms of which the keyword is a substring
AtomsContaining(kw) ==
    CASE kw = "intern" -> {"intern", "internship"}
      [] kw = "java" -> {"java", "javascript"}
      [] kw = "deploy" -> {"deploy", "deployed"}
      [] kw = "project" -> {"project", "projects"}
      [] OTHER -> {kw}

\* kw in text, text being resume_text.lower()
KwIn(kw, text) == \E i \in 1..Len(text) : text[i] \in AtomsContaining(kw)
AnyKwIn(kws, text) == \E kw \in kws : KwIn(kw, text)

FallbackScore_Unclamped(resume_text) ==
    LET text == LowerStr(resume_text)
    IN 45
        + (IF KwIn("intern", text) THEN 12 ELSE 0)
        + (IF KwIn("github", text) THEN 8 ELSE 0)
        + (IF KwIn("project", text) THEN 8 ELSE 0)
        + (IF AnyKwIn({"react", "node", "python", "java", "sql", "api", "docker"}, text) THEN 10 ELSE 0)
        + (IF AnyKwIn({"leetcode", "codeforces", "dsa", "algorithm"}, text) THEN 8 ELSE 0)
        + (IF AnyKwIn({"aws", "gcp", "azure", "deploy", "deployed"}, text) THEN 6 ELSE 0)

FallbackScore(resume_text) ==
    LET text == LowerStr(resume_text)
        score == 45
            + (IF KwIn("intern", text) THEN 12 ELSE 0)
            + (IF KwIn("github", text) THEN 8 ELSE 0)
            + (IF KwIn("project", text) THEN 8 ELSE 0)
            + (IF AnyKwIn({"react", "node", "python", "java", "sql", "api", "docker"}, text) THEN 10 ELSE 0)
            + (IF AnyKwIn({"leetcode", "codeforces", "dsa", "algorithm"}, text) THEN 8 ELSE 0)
            + (IF AnyKwIn({"aws", "gcp", "azure", "deploy", "deployed"}, text) THEN 6 ELSE 0)
    IN MaxOf({30, MinOf({score, 82})})

Clamp100(n) == MaxOf({0, MinOf({100, n})})

_local_ats_fallback(resume_text, reason) ==
    LET score == FallbackScore(resume_text)
        verdict == IF score >= 75 THEN "Shortlist"
                   ELSE IF score >= 60 THEN "Borderline"
                   ELSE "Reject"
        note == IF reason # "" THEN reason
                ELSE "Cloud model unavailable; used local heuristic evaluation."
    IN Dict(<<
        <<"candidate_name", _guess_candidate_name(resume_text)>>,
        <<"overall_score", JNum(score)>>,
        <<"verdict", S(verdict)>>,
        <<"track_scores", Dict(<<
            <<"product_based", JNum(Clamp100(score - 2))>>,
            <<"service_based", JNum(Clamp100(score + 2))>>,
            <<"incubator_startup", JNum(Clamp100(score + 1))>> >>)>>,
        <<"detailed_analysis", Dict(<<
            <<"strengths", JArr(<<
                S("Resume processed successfully with offline fallback logic."),
                S("Core technical keywords and project evidence were detected."),
                S("Result generated despite external API unavailability.")>>)>>,
            <<"weaknesses", JArr(<<
                S(note),
                S("This score is approximate and less detailed than LLM output."),
                S("Re-run after quota reset for richer ATS analysis.")>>)>>,
            <<"actionable_improvements", JArr(<<
                S("[Product] Add DSA profile link and solved problems count."),
                S("[Service] Quantify internship/project outcomes with clear metrics."),
                S("[Startup] Add deployed links, demo video, and README proof.")>>)>> >>)>>,
        <<"interview_questions", Dict(<<
            <<"technical", S("Explain one project architecture and tradeoffs you chose.")>>,
            <<"behavioral", S("Describe a tight-deadline collaboration and your contribution.")>> >>)>> >>)

\* ------------------------------------------------------------------------
\* Exceptions: [type, msg]; the words the classifiers look for
\* ------------------------------------------------------------------------
\* the marker substrings found in str(exc).lower() (and in repr(exc).lower())
Markers(msg) ==
    CASE msg = "401 Unauthorized" -> {"401", "unauthorized"}
      [] msg = "Invalid API key" -> {"invalid api key"}
      [] msg = "429 RESOURCE_EXHAUSTED" -> {"429", "resource_exhausted"}
      [] msg = "Quota exceeded" -> {"quota"}
      [] msg = "401 for project 429" -> {"401", "429"}
      [] OTHER -> {}

_is_quota_error(exc) ==
    Markers(exc.msg) \cap {"429", "quota", "rate limit", "resource_exhausted"} # {}

_is_auth_error(exc) ==
    Markers(exc.msg) \cap {"401", "unauthorized", "invalid api key", "authentication"} # {}

\* ------------------------------------------------------------------------
\* The result literals of analyze_resume_ats
\* ------------------------------------------------------------------------
ZeroTracks ==
    Dict(<< <<"product_based", JNum(0)>>, <<"service_based", JNum(0)>>,
            <<"incubator_startup", JNum(0)>> >>)

ErrorResult(name, strengths, weaknesses, improvements, technical, behavioral) ==
    Dict(<<
        <<"candidate_name", S(name)>>,
        <<"overall_score", JNum(0)>>,
        <<"verdict", S("ERROR")>>,
        <<"track_scores", ZeroTracks>>,
        <<"detailed_analysis", Dict(<<
            <<"strengths", JArr(strengths)>>,
            <<"weaknesses", JArr(weaknesses)>>,
            <<"actionable_improvements", JArr(improvements)>> >>)>>,
        <<"interview_questions", Dict(<<
            <<"technical", S(technical)>>,
            <<"behavioral", S(behavioral)>> >>)>> >>)

NoApiKeyResult ==
    ErrorResult("Error: No API Key",
        <<S("System error: Missing API key(s)")>>, << >>, << >>, "None", "None")

ParseErrorResult(e) ==
    ErrorResult("Parse Error", << >>,
        <<S("AI returned invalid JSON format (could not be repaired)."),
          JStr(<<"Parse error: ", e.msg>>)>>,
        <<S("Try again (temporary model formatting glitch)."),
          S("If it repeats, shorten the resume PDF (remove images) or try a text-based PDF."),
          S("Lower request frequency if you are hitting rate limits.")>>,
        "None", "None")

\* the auth result under a name that is not a failure name
AuthErrorResult_Misnamed ==
    ErrorResult("Unknown", << >>,
        <<S("Invalid or expired API key. Authentication failed with Google Gemini API.")>>,
        << >>, "None - API authentication failed", "None - API authentication failed")

AuthErrorResult ==
    ErrorResult("API Auth Error", << >>,
        <<S("Invalid or expired API key. Authentication failed with Google Gemini API.")>>,
        <<S("Verify your GOOGLE_API_KEY in the .env file is correct"),
          S("Optionally set GOOGLE_API_KEYS with comma-separated backup keys"),
          S("Check if your API key has expired or been revoked"),
          S("Generate a new API key from Google AI Studio if needed")>>,
        "None - API authentication failed", "None - API authentication failed")

SystemErrorResult(e) ==
    ErrorResult("System Error", << >>,
        <<JStr(<<e.type, ": ", e.msg>>)>>,
        <<S("Check server logs for detailed error information"),
          S("Verify API key is correctly configured"),
          S("Ensure network connectivity to Google API servers")>>,
        "None", "None")

\* ------------------------------------------------------------------------
\* analyze_resume_ats: the except clauses
\* ------------------------------------------------------------------------
\* what the call ends with when exception e is raised inside the try block
HandleException(e, resume_text) ==
    IF e.type = "JSONDecodeError" THEN Return(ParseErrorResult(e))
    ELSE IF e.type = "ValueError" THEN
        IF e.msg = "API_QUOTA_EXCEEDED"
        THEN Return(_local_ats_fallback(resume_text,
                        "API quota exceeded across available keys/models."))
        ELSE IF e.msg = "API_AUTH_ERROR" THEN Return(AuthErrorResult)
        ELSE IF e.msg = "API_CALL_FAILED"
        THEN Return(_local_ats_fallback(resume_text,
                        "API call failed for all key/model combinations."))
        ELSE e
    ELSE
        LET is_quota_error ==
                \/ Markers(e.msg) \cap {"429", "quota", "rate limit", "resource_exhausted"} # {}
                \/ e.type = "ClientError"
        IN IF is_quota_error
           THEN Return(_local_ats_fallback(resume_text,
                        "Runtime quota/rate error. Local fallback was used."))
           ELSE Return(SystemErrorResult(e))

\* the classification that does not look at the counters
ExhaustedError_Uncounted(auth_errors, quota_errors) ==
    Raise("ValueError", "API_CALL_FAILED")

\* the classification with the two tests in the other order
ExhaustedError_AuthFirst(auth_errors, quota_errors) ==
    IF auth_errors > 0 THEN Raise("ValueError", "API_AUTH_ERROR")
    ELSE IF quota_errors > 0 THEN Raise("ValueError", "API_QUOTA_EXCEEDED")
    ELSE Raise("ValueError", "API_CALL_FAILED")

\* the classification raised when the loops end without a response
ExhaustedError(auth_errors, quota_errors) ==
    IF quota_errors > 0 THEN Raise("ValueError", "API_QUOTA_EXCEEDED")
    ELSE IF auth_errors > 0 THEN Raise("ValueError", "API_AUTH_ERROR")
    ELSE Raise("ValueError", "API_CALL_FAILED")

\* ------------------------------------------------------------------------
\* analyze_resume_ats: from the provider response to the returned data
\* ------------------------------------------------------------------------
\* A response is [text, parts]: response.text and the text of each part of
\* response.candidates[0].content.parts.  << >> stands for None or "" (both
\* are falsy, which is all the code asks of them).
RECURSIVE JoinParts(_)
JoinParts(parts) ==
    IF parts = << >> THEN << >>
    ELSE Head(parts) \o JoinParts(Tail(parts))

\* raw_text, << >> when nothing was found
PickRawText(raw_from_text, raw_from_parts) ==
    IF raw_from_text # << >> /\ raw_from_parts # << >>
    THEN IF Len(raw_from_parts) >= Len(raw_from_text) THEN raw_from_parts ELSE raw_from_text
    ELSE IF raw_from_parts # << >> THEN raw_from_parts
    ELSE raw_from_text

RawText(response) ==
    CHOOSE r \in
        {PickRawText(raw_from_text, raw_from_parts) :
            raw_from_text \in {Strip(response.text)},
            raw_from_parts \in {Strip(JoinParts(response.parts))}} : TRUE

\* re.sub(r'^<fence>json\s*', '', t, flags=re.MULTILINE)
SubFenceOpen(t) ==
    CHOOSE r \in
        {ForRange("fence_open", x, 1, Len(x), [acc |-> << >>, next |-> 1]).acc : x \in {t}} : TRUE

\* re.sub(r'\s*<fence>$', '', t, flags=re.MULTILINE)
SubFenceClose(t) ==
    CHOOSE r \in
        {ForRange("fence_close", x, 1, Len(x), [acc |-> << >>, next |-> 1]).acc : x \in {t}} : TRUE

CleanText(raw_text) ==
    Strip(SubFenceClose(SubFenceOpen(raw_text)))

DecodeError == Raise("JSONDecodeError", "Expecting value")

\* the try/except json.JSONDecodeError block that assigns data, stage by
\* stage: direct parse; balanced extraction, repair and parse; salvage
\* without detailed_analysis; repair of the whole text; minimal payload
AfterSalvage(clean_text, salvaged) ==
    IF salvaged.some THEN Return(salvaged.v)
    ELSE CHOOSE r \in
            {IF repaired.ok THEN Return(repaired.v)
             ELSE Return(_salvage_minimal_ats_payload(clean_text)) :
                repaired \in {JsonLoads(_repair_common_json_issues(clean_text))}} : TRUE

AfterExtraction(clean_text, extracted) ==
    IF extracted.some
    THEN CHOOSE r \in
            {IF again.ok THEN Return(again.v) ELSE DecodeError :
                again \in {JsonLoads(_repair_common_json_issues(extracted.s))}} : TRUE
    ELSE CHOOSE r \in
            {AfterSalvage(clean_text, salvaged) :
                salvaged \in {_salvage_without_detailed_analysis(clean_text)}} : TRUE

AfterDirectParse(clean_text, direct) ==
    IF direct.ok THEN Return(direct.v)
    ELSE CHOOSE r \in
            {AfterExtraction(clean_text, extracted) :
                extracted \in {_extract_first_json_object(clean_text)}} : TRUE

RecoverData(clean_text) ==
    CHOOSE r \in
        {AfterDirectParse(x, direct) : x \in {clean_text}, direct \in {JsonLoads(clean_text)}} : TRUE

required_fields ==
    <<"candidate_name", "overall_score", "verdict", "track_scores",
      "detailed_analysis", "interview_questions">>

MissingFieldMsg(field) ==
    CASE field = "candidate_name" -> "Missing required field: candidate_name"
      [] field = "overall_score" -> "Missing required field: overall_score"
      [] field = "verdict" -> "Missing required field: verdict"
      [] field = "track_scores" -> "Missing required field: track_scores"
      [] field = "detailed_analysis" -> "Missing required field: detailed_analysis"
      [] field = "interview_questions" -> "Missing required field: interview_questions"

\* one "'a' not in sec or 'b' not in sec ..." check
CheckSection(sec, keys, msg, rest) ==
    IF PyIn(keys[1], sec) = "TypeError" THEN Raise("TypeError", "not iterable")
    ELSE IF \E i \in 1..Len(keys) : PyIn(keys[i], sec) = "no" THEN Raise("ValueError", msg)
    ELSE rest

Validate_ScoreChecked(data) ==
    IF IsDict(data) /\ HasKey(data, "overall_score") /\ Get(data, "overall_score") = JNum(150)
    THEN Raise("ValueError", "overall_score out of range")
    ELSE Return(data)

\* the validation of the required fields; returns data or raises
Validate(data) ==
    LET missing == {i \in 1..Len(required_fields) : PyIn(required_fields[i], data) = "no"}
    IN IF PyIn(required_fields[1], data) = "TypeError" THEN Raise("TypeError", "not iterable")
       ELSE IF missing # {} THEN Raise("ValueError", MissingFieldMsg(required_fields[MinOf(missing)]))
       ELSE IF ~IsDict(data) THEN Raise("TypeError", "indices must be integers")
       ELSE
        CheckSection(Get(data, "track_scores"),
            <<"product_based", "service_based", "incubator_startup">>,
            "track_scores missing required fields",
        CheckSection(Get(data, "detailed_analysis"),
            <<"strengths", "weaknesses", "actionable_improvements">>,
            "detailed_analysis missing required fields",
        CheckSection(Get(data, "interview_questions"),
            <<"technical", "behavioral">>,
            "interview_questions missing required fields",
        Return(data))))

\* the body of the try block once response is not None, without the handlers
NormalizeAndValidate(data) ==
    IF data.kind = "raise" THEN data
    ELSE CHOOSE r \in
            {IF norm.kind = "raise" THEN norm ELSE Validate(norm.v) :
                norm \in {_normalize_to_ats_schema(data.v)}} : TRUE

ParseRawText(raw_text) ==
    IF raw_text = << >>
    THEN Raise("ValueError", "Could not extract text from response - response is empty")
    ELSE IF Strip(raw_text) = << >> THEN Raise("ValueError", "Response text is empty")
    ELSE CHOOSE r \in
            {NormalizeAndValidate(data) :
                data \in {RecoverData(clean_text) : clean_text \in {CleanText(raw_text)}}} : TRUE

TryBody(response) ==
    CHOOSE r \in {ParseRawText(raw_text) : raw_text \in {RawText(response)}} : TRUE

\* how the call ends for a response: a returned result or a raised exception
ProcessResponse(response, resume_text) ==
    CHOOSE o \in
        {IF r.kind = "raise" THEN HandleException(r, resume_text) ELSE r :
            r \in {TryBody(response)}} : TRUE

\* ------------------------------------------------------------------------
\* Inputs: reply texts the provider may send
\* ------------------------------------------------------------------------
RECURSIVE JoinWith(_, _)
JoinWith(items, sep) ==
    IF items = << >> THEN << >>
    ELSE IF Len(items) = 1 THEN items[1]
    ELSE items[1] \o sep \o JoinWith(Tail(items), sep)

StrLit(a) == <<Q>> \o a \o <<Q>>
KV(key, value) == <<Q, key, Q, CL, SP>> \o value
ObjText(members) == <<LB>> \o JoinWith(members, <<CM, SP>>) \o <<RB>>
ArrText(elems) == <<LK>> \o JoinWith(elems, <<CM, SP>>) \o <<RK>>

TrackText(p, s, i) ==
    ObjText(<<KV("product_based", <<p>>), KV("service_based", <<s>>),
              KV("incubator_startup", <<i>>)>>)

AnalysisText ==
    ObjText(<<KV("strengths", ArrText(<<StrLit(<<"x">>)>>)),
              KV("weaknesses", ArrText(<<StrLit(<<"too", SP, "vague">>)>>)),
              KV("actionable_improvements", ArrText(<< >>))>>)

QuestionsText ==
    ObjText(<<KV("technical", StrLit(<<"t">>)), KV("behavioral", StrLit(<<"b">>))>>)

\* the schema of the prompt, in its key order
CanonicalText(name, overall_score, verdict, tracks) ==
    ObjText(<<KV("candidate_name", StrLit(name)),
              KV("overall_score", <<overall_score>>),
              KV("verdict", <<Q, verdict, Q>>),
              KV("track_scores", tracks),
              KV("detailed_analysis", AnalysisText),
              KV("interview_questions", QuestionsText)>>)

JaneText == CanonicalText(<<"Jane", SP, "Doe">>, "75", "Shortlist", TrackText("72", "78", "80"))

\* every proper prefix of the canonical reply (a reply cut off by the token limit)
Truncations(t) == {SubSeq(t, 1, k) : k \in 1..(Len(t) - 1)}

\* the legacy schema of the old judge
LegacyText(verdict, flags) ==
    ObjText(<<KV("candidate_name", StrLit(<<"Jane", SP, "Doe">>)),
              KV("signal_score", <<"90">>),
              KV("verdict", <<Q, verdict, Q>>),
              KV("red_flags", flags),
              KV("brutal_feedback", StrLit(<<"b">>)),
              KV("interview_question", StrLit(<<"t">>))>>)

\* the canonical reply without its i-th member
WithoutMember(i) ==
    LET all == <<KV("candidate_name", StrLit(<<"Jane", SP, "Doe">>)),
                 KV("overall_score", <<"75">>),
                 KV("verdict", StrLit(<<"Shortlist">>)),
                 KV("track_scores", TrackText("72", "78", "80")),
                 KV("detailed_analysis", AnalysisText),
                 KV("interview_questions", QuestionsText)>>
    IN ObjText(SubSeq(all, 1, i - 1) \o SubSeq(all, i + 1, Len(all)))

NameList(names) == ArrText([i \in 1..Len(names) |-> StrLit(<<names[i]>>)])

ExtraMemberCut ==
    LET head == ObjText(<<KV("candidate_name", StrLit(<<"Jane", SP, "Doe">>)),
                          KV("overall_score", <<"75">>),
                          KV("verdict", StrLit(<<"Shortlist">>)),
                          KV("track_scores", TrackText("72", "78", "80")),
                          KV("summary", StrLit(<<"ok">>))>>)
    IN SubSeq(head, 1, Len(head) - 1)
        \o <<CM, SP, Q, "detailed_analysis", Q, CL, SP, LB, Q, "strengths", Q, CL, SP, LK, Q, "x">>

\* the canonical members with detailed_analysis first and a brace between
\* typographic quotes in it
AnalysisFirstText ==
    ObjText(<<KV("detailed_analysis",
                 ObjText(<<KV("strengths", ArrText(<< <<LDQ, LB, RDQ>> >>)),
                           KV("weaknesses", ArrText(<<StrLit(<<"w">>)>>)),
                           KV("actionable_improvements", ArrText(<< >>))>>)),
              KV("candidate_name", StrLit(<<"Jane", SP, "Doe">>)),
              KV("overall_score", <<"75">>),
              KV("verdict", StrLit(<<"Shortlist">>)),
              KV("track_scores", TrackText("72", "78", "80")),
              KV("interview_questions", QuestionsText)>>)

\* text after the object of a reply
TrailingProse == <<NL, "Hope", SP, "this", SP, "helps">>

\* candidate names with a comma before a closing bracket or brace, or with
\* typographic quotes, inside the string
OddNames ==
    { <<"Doe", CM, SP, RK>>, <<"Doe", CM, RB>>, <<LDQ, "Jane", RDQ, SP, "Doe">> }

OddReplies ==
    { \* out-of-range and error-valued fields that parse directly
      CanonicalText(<<"Jane", SP, "Doe">>, "150", "Shortlist", TrackText("72", "150", "80")),
      CanonicalText(<<"Jane", SP, "Doe">>, "0", "ERROR", TrackText("0", "0", "0")),
      \* sections that are not mappings
      CanonicalText(<<"Jane", SP, "Doe">>, "75", "Reject",
          NameList(<<"product_based", "service_based", "incubator_startup">>)),
      CanonicalText(<<"Jane", SP, "Doe">>, "75", "Reject", <<"5">>),
      CanonicalText(<<"Jane", SP, "Doe">>, "75", "Reject", ObjText(<<KV("product_based", <<"72">>)>>)),
      \* prose, fences, trailing commas, typographic quotes around the object
      <<"Here", SP, "is", SP, "the", SP, "result", CL, NL>> \o JaneText,
      JaneText \o TrailingProse,
      AnalysisFirstText,
      <<FENCEJSON, NL>> \o JaneText \o <<NL, FENCE>>,
      <<FENCEJSON, NL, FENCE>>,
      SubSeq(JaneText, 1, Len(JaneText) - 1) \o <<CM, NL, RB, NL, "Done">>,
      SubSeq(JaneText, 1, Len(JaneText) - 1) \o <<CM, RB>>,
      [i \in 1..Len(JaneText) |-> IF JaneText[i] = Q THEN IF i % 2 = 0 THEN LDQ ELSE RDQ ELSE JaneText[i]],
      \* balanced braces around something that is not JSON
      <<LB, Q, "candidate_name", Q, CL, SP, Q, "Jane", Q, CM, SP, "oops", RB>>,
      <<"Sorry", CM, SP, LB, "no", SP, "data", RB>>,
      \* replies that are JSON but not an object
      <<"5">>, <<"null">>, ArrText(<< >>), StrLit(<<"overall_score">>),
      NameList(required_fields),
      <<"I", SP, "cannot", SP, "help">>,
      \* an extra member before detailed_analysis, cut off inside it
      ExtraMemberCut }

ReplyTexts ==
    {JaneText}
    \cup Truncations(JaneText)
    \cup {LegacyText(v, f) : v \in {"PASS", "Borderline", "Maybe"},
                             f \in {ArrText(<<StrLit(<<"a">>)>>), ArrText(<< >>)}}
    \cup {ObjText(<<KV("signal_score", <<"90">>), KV("verdict", <<"5">>),
                   KV("red_flags", ArrText(<< >>))>>)}
    \cup {WithoutMember(i) : i \in 1..6}
    \cup {CanonicalText(name, "75", "Shortlist", TrackText("72", "78", "80")) \o TrailingProse :
                name \in OddNames}
    \cup OddReplies

\* the responses of generate_content: text only, parts only, both, neither
Responses ==
    {[text |-> t, parts |-> << >>] : t \in ReplyTexts}
    \cup {[text |-> << >>, parts |-> <<SubSeq(JaneText, 1, 40), SubSeq(JaneText, 41, Len(JaneText))>>],
          [text |-> SubSeq(JaneText, 1, 40),
           parts |-> <<SubSeq(JaneText, 1, 40), << >>, SubSeq(JaneText, 41, Len(JaneText))>>],
          [text |-> << >>, parts |-> << >>],
          [text |-> <<SP, NL>>, parts |-> << <<SP>> >>]}

\* ------------------------------------------------------------------------
\* Inputs: resume texts
\* ------------------------------------------------------------------------
ResumeTexts ==
    { <<"Jane", SP, "Doe", NL, "Intern", SP, "GitHub", SP, "projects", SP, "Python",
        SP, "leetcode", SP, "AWS">>,
      <<NL, "Jane", SP, "Doe", NL, "Python", SP, "projects">>,
      <<"a", SP, "b", SP, "c", SP, "d", SP, "e", SP, "f">> }

\* the resume texts of the model of a whole call
SampleResumes ==
    { <<"Jane", SP, "Doe", NL, "Intern", SP, "GitHub", SP, "projects", SP, "Python",
        SP, "leetcode", SP, "AWS">>,
      <<"a", SP, "b", SP, "c", SP, "d", SP, "e", SP, "f">> }

\* ------------------------------------------------------------------------
\* Inputs: exceptions generate_content may raise
\* ------------------------------------------------------------------------
ProviderErrors ==
    { [type |-> "ClientError", msg |-> "401 Unauthorized"],
      [type |-> "ClientError", msg |-> "Invalid API key"],
      [type |-> "ClientError", msg |-> "429 RESOURCE_EXHAUSTED"],
      [type |-> "ServerError", msg |-> "Quota exceeded"],
      [type |-> "ClientError", msg |-> "401 for project 429"],
      [type |-> "ClientError", msg |-> "404 model not found"],
      [type |-> "ServerError", msg |-> "503 unavailable"],
      [type |-> "ValueError", msg |-> "contents must not be empty"],
      [type |-> "JSONDecodeError", msg |-> "Expecting value"],
      [type |-> "ConnectionError", msg |-> "connection reset"] }

\* the replies the provider sends in the model of a whole call: the
\* canonical reply, a cut-off one, one without interview_questions,
\* out-of-range and ERROR-valued fields, track_scores as a list, braces
\* around something that is not JSON, prose, and a response without text
SampleTexts ==
    { JaneText,
      SubSeq(JaneText, 1, 85),
      WithoutMember(6),
      CanonicalText(<<"Jane", SP, "Doe">>, "150", "Shortlist", TrackText("72", "150", "80")),
      CanonicalText(<<"Jane", SP, "Doe">>, "0", "ERROR", TrackText("0", "0", "0")),
      CanonicalText(<<"Jane", SP, "Doe">>, "75", "Reject",
          NameList(<<"product_based", "service_based", "incubator_startup">>)),
      <<LB, Q, "candidate_name", Q, CL, SP, Q, "Jane", Q, CM, SP, "oops", RB>>,
      <<"I", SP, "cannot", SP, "help">> }

SampleResponses ==
    {[text |-> t, parts |-> << >>] : t \in SampleTexts}
    \cup {[text |-> << >>, parts |-> << >>]}

\* ------------------------------------------------------------------------
\* State
\* ------------------------------------------------------------------------
\* the most credentials the model configures
MaxKeys == 2

model_candidates == <<"gemini-2.5-flash", "gemini-1.5-flash">>

VARIABLES
    clients,        \* len(clients): the credentials loaded at import
    pc,             \* where the call is: idle, trying, received, done
    resume_text,    \* the argument of analyze_resume_ats
    key_index,      \* the credential of the next attempt (1-based)
    model_index,    \* the model of the next attempt, an index of model_candidates
    auth_errors,
    quota_errors,
    attempts,       \* the generate_content calls made so far: [key, model, outcome]
    response,       \* the local variable response: [some, text, parts]
    outcome,        \* how the call ended: kind = return, raise, or none while running
    debug_file,     \* last_ai_response_ats.txt: absent, partial or written
    fn,             \* the helper function applied on its own, or none
    arg,            \* its argument
    ret             \* what it returned or raised, NoOutcome before it is applied

vars == <<clients, pc, resume_text, key_index, model_index, auth_errors, quota_errors,
          attempts, response, outcome, debug_file, fn, arg, ret>>

NoResponse == [some |-> FALSE, text |-> << >>, parts |-> << >>]
SomeResponse(r) == [some |-> TRUE, text |-> r.text, parts |-> r.parts]
NoOutcome == [kind |-> "none", v |-> JNull, type |-> "", msg |-> ""]

Init ==
    /\ clients \in 0..MaxKeys
    /\ pc = "idle"
    /\ resume_text = << >>
    /\ key_index = 1
    /\ model_index = 1
    /\ auth_errors = 0
    /\ quota_errors = 0
    /\ attempts = << >>
    /\ response = NoResponse
    /\ outcome = NoOutcome
    /\ debug_file = "absent"
    /\ fn = "none"
    /\ arg = << >>
    /\ ret = NoOutcome

\* ------------------------------------------------------------------------
\* analyze_resume_ats
\* ------------------------------------------------------------------------
\* entry: the "if not clients" return, else the start of the two loops; the
\* caller may call again as soon as the call before has ended
Call(text) ==
    /\ pc \in {"idle", "done"}
    /\ resume_text' = text
    /\ key_index' = 1
    /\ model_index' = 1
    /\ auth_errors' = 0
    /\ quota_errors' = 0
    /\ attempts' = << >>
    /\ response' = NoResponse
    /\ IF clients = 0
       THEN pc' = "done" /\ outcome' = Return(NoApiKeyResult)
       ELSE pc' = "trying" /\ outcome' = NoOutcome
    /\ UNCHANGED <<clients, debug_file, fn, arg, ret>>

Attempted(result) ==
    Append(attempts, [key |-> key_index, model |-> model_index, outcome |-> result])

\* the pair that failed is attempted again before the loops go on
ContinueAt_Retry(k, m, auth, quota) ==
    /\ auth_errors' = auth
    /\ quota_errors' = quota
    /\ IF \E i \in 1..Len(attempts) :
            attempts[i].key = key_index /\ attempts[i].model = model_index
       THEN IF k <= clients
            THEN /\ key_index' = k
                 /\ model_index' = m
                 /\ pc' = "trying"
                 /\ outcome' = NoOutcome
            ELSE /\ UNCHANGED <<key_index, model_index>>
                 /\ pc' = "done"
                 /\ outcome' = HandleException(ExhaustedError(auth, quota), resume_text)
       ELSE /\ UNCHANGED <<key_index, model_index>>
            /\ pc' = "trying"
            /\ outcome' = NoOutcome

\* the loops go on at (k, m), or end without a response when k is past the
\* last credential: the classification is raised and handled
ContinueAt(k, m, auth, quota) ==
    /\ auth_errors' = auth
    /\ quota_errors' = quota
    /\ IF k <= clients
       THEN /\ key_index' = k
            /\ model_index' = m
            /\ pc' = "trying"
            /\ outcome' = NoOutcome
       ELSE /\ UNCHANGED <<key_index, model_index>>
            /\ pc' = "done"
            /\ outcome' = HandleException(ExhaustedError(auth, quota), resume_text)

\* "continue" taken for "break": the models left are skipped
AfterContinue_NextCredential(auth, quota) ==
    ContinueAt(key_index + 1, 1, auth, quota)

\* "continue" in the inner loop: the next model, or the next credential
\* after the last model
AfterContinue(auth, quota) ==
    IF model_index < Len(model_candidates)
    THEN ContinueAt(key_index, model_index + 1, auth, quota)
    ELSE ContinueAt(key_index + 1, 1, auth, quota)

\* the response is stored and the loops go on, without the two "break"
AttemptSucceeds_GoesOn(r) ==
    /\ pc = "trying"
    /\ response' = SomeResponse(r)
    /\ attempts' = Attempted("success")
    /\ AfterContinue(auth_errors, quota_errors)
    /\ UNCHANGED <<clients, resume_text, debug_file, fn, arg, ret>>

\* generate_content returns a response: both loops break
AttemptSucceeds(r) ==
    /\ pc = "trying"
    /\ response' = SomeResponse(r)
    /\ attempts' = Attempted("success")
    /\ pc' = "received"
    /\ UNCHANGED <<clients, resume_text, key_index, model_index, auth_errors,
                   quota_errors, outcome, debug_file, fn, arg, ret>>

\* generate_content returns None: the inner loop breaks, the outer goes on
AttemptReturnsNone ==
    /\ pc = "trying"
    /\ attempts' = Attempted("none")
    /\ ContinueAt(key_index + 1, 1, auth_errors, quota_errors)
    /\ UNCHANGED <<clients, resume_text, response, debug_file, fn, arg, ret>>

\* the except clause without its "raise": every error goes on to the next model
AttemptRaises_Swallowed(e) ==
    /\ pc = "trying"
    /\ IF _is_auth_error(e)
       THEN /\ attempts' = Attempted("auth")
            /\ AfterContinue(auth_errors + 1, quota_errors)
       ELSE IF _is_quota_error(e)
       THEN /\ attempts' = Attempted("quota")
            /\ AfterContinue(auth_errors, quota_errors + 1)
       ELSE /\ attempts' = Attempted("fatal")
            /\ AfterContinue(auth_errors, quota_errors)
    /\ UNCHANGED <<clients, resume_text, response, debug_file, fn, arg, ret>>

\* generate_content raises e: the except clause of the inner loop
AttemptRaises(e) ==
    /\ pc = "trying"
    /\ IF _is_auth_error(e)
       THEN /\ attempts' = Attempted("auth")
            /\ AfterContinue(auth_errors + 1, quota_errors)
       ELSE IF _is_quota_error(e)
       THEN /\ attempts' = Attempted("quota")
            /\ AfterContinue(auth_errors, quota_errors + 1)
       ELSE /\ attempts' = Attempted("fatal")
            /\ pc' = "done"
            /\ outcome' = HandleException(Raise(e.type, e.msg), resume_text)
            /\ UNCHANGED <<key_index, model_index, auth_errors, quota_errors>>
    /\ UNCHANGED <<clients, resume_text, response, debug_file, fn, arg, ret>>

\* open(..., 'w') and the four writes of last_ai_response_ats.txt: how they
\* may end
DebugWriteResults == {"written", "open failed", "write failed"}

\* the with block: it ends, or raises the error of open or of a write
DebugWriteAttempt(result) ==
    IF result = "written" THEN Return(JNull) ELSE Raise("OSError", result)

\* the file after the with block: a failed open leaves it as it was, a failed
\* write leaves the part written so far
DebugFileAfter(result, before) ==
    CASE result = "written" -> "written"
      [] result = "open failed" -> before
      [] result = "write failed" -> "partial"

DebugWriteOutcome_Unguarded(result) == DebugWriteAttempt(result)

\* try: the with block; except Exception: pass
DebugWriteOutcome(result) ==
    IF DebugWriteAttempt(result).kind = "raise" THEN Return(JNull)
    ELSE DebugWriteAttempt(result)

\* the call after the write of the debug file
AfterDebugWrite(write, result, resume) ==
    IF write.kind = "raise" THEN HandleException(write, resume) ELSE result

\* the rest of the try block for the response received, with the handlers;
\* the debug file is written once the raw text is known not to be blank
Recover ==
    /\ pc = "received"
    /\ pc' = "done"
    /\ \E result \in {ProcessResponse(response, resume_text)} :
        IF Strip(RawText(response)) # << >>
        THEN \E write \in DebugWriteResults :
                /\ debug_file' = DebugFileAfter(write, debug_file)
                /\ outcome' = AfterDebugWrite(DebugWriteOutcome(write), result, resume_text)
        ELSE /\ outcome' = result
             /\ UNCHANGED debug_file
    /\ UNCHANGED <<clients, resume_text, key_index, model_index, auth_errors,
                   quota_errors, attempts, response, fn, arg, ret>>

\* the caller has the result (or the exception); the next call may start
Finish ==
    /\ pc = "done"
    /\ pc' = "idle"
    /\ resume_text' = << >>
    /\ key_index' = 1
    /\ model_index' = 1
    /\ auth_errors' = 0
    /\ quota_errors' = 0
    /\ attempts' = << >>
    /\ response' = NoResponse
    /\ outcome' = NoOutcome
    /\ UNCHANGED <<clients, debug_file, fn, arg, ret>>

Next ==
    \/ \E text \in SampleResumes : Call(text)
    \/ \E r \in SampleResponses : AttemptSucceeds(r)
    \/ AttemptReturnsNone
    \/ \E e \in ProviderErrors : AttemptRaises(e)
    \/ Recover
    \/ Finish

Spec == Init /\ [][Next]_vars

\* ------------------------------------------------------------------------
\* The recovery pipeline alone: any reply text, received at the first attempt
\* ------------------------------------------------------------------------
InitRecovery ==
    /\ clients = 1
    /\ pc = "received"
    /\ resume_text \in ResumeTexts
    /\ key_index = 1
    /\ model_index = 1
    /\ auth_errors = 0
    /\ quota_errors = 0
    /\ attempts = <<[key |-> 1, model |-> 1, outcome |-> "success"]>>
    /\ response \in {SomeResponse(r) : r \in Responses}
    /\ outcome = NoOutcome
    /\ debug_file = "absent"
    /\ fn = "none"
    /\ arg = << >>
    /\ ret = NoOutcome

SpecRecovery == InitRecovery /\ [][Recover]_vars

\* ------------------------------------------------------------------------
\* The helper functions called on their own: fn is applied to arg once
\* ------------------------------------------------------------------------
\* objects, with braces, quotes and backslashes inside their strings
ExtractObjects ==
    { ObjText(<< >>),
      ObjText(<<KV("a", <<"5">>)>>),
      ObjText(<<KV("a", StrLit(<<"x", LB, "y">>))>>),
      ObjText(<<KV("a", StrLit(<<RB>>))>>),
      ObjText(<<KV("a", StrLit(<<"q", BS, Q, RB>>))>>),
      ObjText(<<KV("a", StrLit(<<"c", BS, BS>>))>>),
      ObjText(<<KV("a", StrLit(<<BS, BS, BS, Q, LB>>)), KV("b", <<"5">>)>>),
      ObjText(<<KV("a", ObjText(<<KV("b", <<"5">>)>>))>>),
      ObjText(<<KV("a", ArrText(<<ObjText(<< >>), ObjText(<<KV("b", StrLit(<<RB, RB>>))>>)>>))>>),
      TrackText("72", "78", "80") }

\* arguments of _extract_first_json_object: A + obj + B with no "{" in A,
\* A + an object cut short, and texts without any "{"
ExtractTexts ==
    LET prefixes ==
            { << >>, <<"Here", SP, "is", CL, NL>>, <<RB, SP>>, <<Q, "so", Q, CL, SP>>,
              <<FENCEJSON, NL>>, <<BS, SP>> }
        suffixes ==
            { << >>, <<NL, "Hope", SP, "this", SP, "helps">>, <<RB>>, <<Q>>, <<NL, FENCE>>,
              <<SP>> \o ObjText(<<KV("z", <<"0">>)>>) }
        no_brace ==
            { << >>, <<"Sorry">>, <<RB>>, <<Q, "a", Q, CL, SP, "5", RB>>, <<LK, "5", RK>> }
    IN {a \o o \o b : a \in prefixes, o \in ExtractObjects, b \in suffixes}
        \cup UNION {{a \o t : t \in Truncations(o)} : a \in prefixes, o \in ExtractObjects}
        \cup no_brace

\* arguments of _repair_common_json_issues: every text of at most
\* MaxRepairLen symbols over commas, blanks, closers and a value, and the
\* texts of the docstring
MaxRepairLen == 4

RepairSymbols == {CM, SP, RB, RK, "5"}

RepairTexts ==
    UNION {[1..n -> RepairSymbols] : n \in 0..MaxRepairLen}
        \cup { <<LB, Q, "a", Q, CL, "5", CM, RB>>,
               <<LB, SP, Q, "a", Q, CL, SP, "5", CM, SP, RB>>,
               <<LK, "5", CM, "0", CM, RK>>,
               <<LB, Q, "a", Q, CL, "5", CM, CM, RB>>,
               <<NL, LB, LDQ, "a", RDQ, CL, LK, "5", CM, NL, RK, CM, NL, RB, NL>>,
               <<LB, Q, "a", Q, CL, Q, "it", RSQ, "s", Q, CM, SP, CM, NL, RB>> }

\* arguments of _normalize_to_ats_schema: mappings of the legacy schema,
\* of the ATS schema, of neither, and values that are no mapping
Absent == [t |-> "absent"]
Member(key, v) == IF v.t = "absent" THEN << >> ELSE << <<key, v>> >>

LegacyData(score, verdict, flags) ==
    Dict(<< <<"candidate_name", JStr(<<"Jane", SP, "Doe">>)>>, <<"signal_score", score>> >>
            \o Member("verdict", verdict) \o Member("red_flags", flags)
            \o << <<"brutal_feedback", S("b")>>, <<"interview_question", S("t")>> >>)

CanonicalData == JsonLoads(JaneText).v

NormalizeInputs ==
    LET scores == {JNum(90), JNum(0), JNum(150), JNum(-5), S("90"), S("high"), JNull, JTrue}
        verdicts ==
            {Absent, S("PASS"), S("shortlist"), S("Borderline"), S("Rejected"), S("Reject"),
             S("error"), S("Maybe"), JStr(<<SP, "Pass", NL>>), EmptyStr, JNull, JNum(5), JNum(0)}
        flags == {Absent, JArr(<<S("a")>>), JArr(<<S("a"), S("b")>>), JArr(<< >>), S("a"), JNull}
    IN
    {LegacyData(score, verdict, red_flags) :
        score \in scores, verdict \in verdicts, red_flags \in flags}
    \cup { \* red_flags without brutal_feedback, and neither of the two
           Dict(<< <<"signal_score", JNum(90)>>, <<"red_flags", JArr(<<S("a")>>)>> >>),
           Dict(<< <<"signal_score", JNum(90)>>, <<"verdict", S("PASS")>> >>),
           \* the ATS schema, alone and with the legacy keys beside it
           CanonicalData,
           Dict(<< <<"overall_score", JNum(75)>>, <<"track_scores", JNum(5)>>,
                   <<"detailed_analysis", JNull>>, <<"signal_score", JNum(90)>>,
                   <<"red_flags", JArr(<<S("a")>>)>> >>),
           \* neither schema
           Dict(<< >>),
           Dict(<< <<"overall_score", JNum(75)>>, <<"verdict", S("PASS")>> >>),
           \* no mapping
           JNum(5), S("x"), JNull, JArr(<<S("a")>>), JArr(<<CanonicalData>>) }

\* data handed to the validation of the required fields: the ATS mapping
\* without one or two of its fields, with a section that lacks keys or is no
\* mapping, and values that are no mapping
Without(d, k) == JObj([x \in (DOMAIN d.m) \ {<<k>>} |-> d.m[x]])
WithField(d, k, v) == JObj([x \in (DOMAIN d.m) \cup {<<k>>} |-> IF x = <<k>> THEN v ELSE d.m[x]])

section_fields ==
    [track_scores |-> <<"product_based", "service_based", "incubator_startup">>,
     detailed_analysis |-> <<"strengths", "weaknesses", "actionable_improvements">>,
     interview_questions |-> <<"technical", "behavioral">>]

Sections == DOMAIN section_fields

SeqRange(q) == {q[i] : i \in 1..Len(q)}

ValidateInputs ==
    {CanonicalData}
    \cup {Without(CanonicalData, k) : k \in SeqRange(required_fields)}
    \cup {Without(Without(CanonicalData, k), "interview_questions") : k \in SeqRange(required_fields)}
    \cup {WithField(CanonicalData, sec, Without(Get(CanonicalData, sec), k)) :
            sec \in Sections, k \in {"product_based", "service_based", "incubator_startup",
                                      "strengths", "weaknesses", "actionable_improvements",
                                      "technical", "behavioral"}}
    \cup {WithField(WithField(CanonicalData, "track_scores", Dict(<< >>)), sec, Dict(<< >>)) :
            sec \in Sections}
    \cup {Without(WithField(CanonicalData, "interview_questions", Dict(<< >>)), k) :
            k \in SeqRange(required_fields)}
    \cup {WithField(CanonicalData, sec, v) :
            sec \in Sections,
            v \in {JNum(5), JNull, S("technical"), JArr(<<S("technical"), S("behavioral")>>),
                   JArr(<<S("product_based"), S("service_based"), S("incubator_startup")>>)}}
    \cup {JNum(5), JNull, Dict(<< >>), JArr(<<S("candidate_name")>>), JArr(<< >>)}

\* arguments of _local_ats_fallback: resumes holding any of the six groups
\* of keywords, in two spellings, the empty resume (or None), and the reasons
KeywordSpellings ==
    { <<"intern", "github", "project", "python", "leetcode", "aws">>,
      <<"Intern", "GitHub", "projects", "javascript", "dsa", "deployed">>,
      <<"internship", "github", "project", "Python", "algorithm", "AWS">> }

KeywordText(spelling, picked) ==
    JoinWith([i \in 1..Len(spelling) |-> IF picked[i] THEN <<spelling[i], SP>> ELSE <<"and", SP>>], << >>)

FallbackResumes ==
    { << >>, <<SP, NL>>, <<"Jane", SP, "Doe">> }
        \cup {<<"Jane", SP, "Doe", NL>> \o KeywordText(spelling, picked) :
                spelling \in KeywordSpellings, picked \in [1..6 -> BOOLEAN]}

FallbackReasons == {"", "API quota exceeded across available keys/models."}

FallbackInputs == [resume_text : FallbackResumes, reason : FallbackReasons]

\* texts for _salvage_minimal_ats_payload: the canonical reply cut off anywhere,
\* texts without any of the fields, and objects whose three fields are
\* spelled so that their pattern matches, matches a blank or does not match
SalvageTexts ==
    LET names == {StrLit(<<"Jane">>), StrLit(<<SP, "Jane", SP, "Doe", NL>>), StrLit(<<SP, SP>>),
                  StrLit(<< >>), <<"null">>}
        scores == {<<"75">>, <<"0">>, StrLit(<<"75">>), <<"null">>}
        verdicts == {StrLit(<<"SHORTLIST">>), StrLit(<<SP, "Borderline">>), StrLit(<<"Rejected">>),
                     StrLit(<<"Maybe">>), <<"5">>}
    IN {JaneText, << >>, <<"I", SP, "cannot", SP, "help">>,
        <<LB, Q, "overall_score", Q, CL, SP, "75", CM, SP, Q, "verdict", Q, CL, SP>>,
        <<LB, Q, "overall_score", Q, SP, NL, CL, NL, SP, "90", CM, SP, Q, "verdict", Q, SP, Q, "Reject", Q>>,
        <<Q, "overall_score", Q, CL, Q, "x", Q, CM, Q, "overall_score", Q, CL, "5">>}
       \cup Truncations(JaneText)
       \cup {ObjText(<<KV("candidate_name", n), KV("overall_score", sc), KV("verdict", v)>>) :
                n \in names, sc \in scores, v \in verdicts}

InitFunctions ==
    /\ clients = 0
    /\ pc = "idle"
    /\ resume_text = << >>
    /\ key_index = 1
    /\ model_index = 1
    /\ auth_errors = 0
    /\ quota_errors = 0
    /\ attempts = << >>
    /\ response = NoResponse
    /\ outcome = NoOutcome
    /\ debug_file = "absent"
    /\ ret = NoOutcome
    /\ \/ fn = "_extract_first_json_object" /\ arg \in ExtractTexts
       \/ fn = "_repair_common_json_issues" /\ arg \in RepairTexts
       \/ fn = "_normalize_to_ats_schema" /\ arg \in NormalizeInputs
       \/ fn = "validate" /\ arg \in ValidateInputs
       \/ fn = "_local_ats_fallback" /\ arg \in FallbackInputs
       \/ fn = "_salvage_minimal_ats_payload" /\ arg \in SalvageTexts

\* the call fn(arg), once
Applies(f) ==
    /\ fn = f
    /\ ret.kind = "none"
    /\ UNCHANGED <<clients, pc, resume_text, key_index, model_index, auth_errors,
                   quota_errors, attempts, response, outcome, debug_file, fn, arg>>

Extract ==
    /\ Applies("_extract_first_json_object")
    /\ ret' = Return(_extract_first_json_object(arg))

Repair ==
    /\ Applies("_repair_common_json_issues")
    /\ ret' = Return(JStr(_repair_common_json_issues(arg)))

Normalize ==
    /\ Applies("_normalize_to_ats_schema")
    /\ ret' = _normalize_to_ats_schema(arg)

\* the validation of analyze_resume_ats, on the normalized data
ValidateData ==
    /\ Applies("validate")
    /\ ret' = Validate(arg)

Fallback ==
    /\ Applies("_local_ats_fallback")
    /\ ret' = Return(_local_ats_fallback(arg.resume_text, arg.reason))

Salvage ==
    /\ Applies("_salvage_minimal_ats_payload")
    /\ ret' = Return(_salvage_minimal_ats_payload(arg))

NextFunctions ==
    \/ Extract
    \/ Repair
    \/ Normalize
    \/ ValidateData
    \/ Fallback
    \/ Salvage

SpecFunctions == InitFunctions /\ [][NextFunctions]_vars

\* ------------------------------------------------------------------------
\* Properties of analyze_resume_ats
\* ------------------------------------------------------------------------
Returned == pc = "done" /\ outcome.kind = "return"

\* v[k], or None when v is not a dict holding k
Field(v, k) == IF IsDict(v) /\ HasKey(v, k) THEN Get(v, k) ELSE JNull
Sub(v, section, k) == Field(Field(v, section), k)

HasKeys(v, keys) == IsDict(v) /\ \A k \in keys : HasKey(v, k)

\* the shape of the result the prompt asks for
WellFormed(v) ==
    /\ HasKeys(v, {required_fields[i] : i \in 1..Len(required_fields)})
    /\ HasKeys(Get(v, "track_scores"), {"product_based", "service_based", "incubator_startup"})
    /\ HasKeys(Get(v, "detailed_analysis"), {"strengths", "weaknesses", "actionable_improvements"})
    /\ HasKeys(Get(v, "interview_questions"), {"technical", "behavioral"})

NonEmptyList(v) == v.t = "arr" /\ v.a # << >>

\* the data handed to the validation: parsed, recovered and normalized
NormalizedData(r) ==
    CHOOSE n \in
        {IF data.kind = "raise" THEN data ELSE _normalize_to_ats_schema(data.v) :
            data \in {RecoverData(CleanText(RawText(r)))}} : TRUE

\* the validation finds a required top-level field missing
SchemaViolation(r) ==
    /\ RawText(r) # << >>
    /\ \E n \in {NormalizedData(r)} :
        /\ n.kind = "return"
        /\ IsDict(n.v)
        /\ \E i \in 1..Len(required_fields) : ~HasKey(n.v, required_fields[i])

\* C1: every call ends by returning a result; no exception reaches the
\* caller, whatever the provider did and whatever text it replied.
C1_NeverRaises == pc = "done" => outcome.kind = "return"

\* C2: when the normalized provider data lacks a required field, the call
\* returns a result with verdict ERROR and a diagnostic weakness; the
\* validation failure is not raised to the caller.
C2_SchemaViolationGivesErrorResult ==
    (pc = "done" /\ response.some /\ SchemaViolation(response))
        => /\ outcome.kind = "return"
           /\ Field(outcome.v, "verdict") = S("ERROR")
           /\ NonEmptyList(Sub(outcome.v, "detailed_analysis", "weaknesses"))

\* C3: every returned result holds the six top-level keys, the three
\* track_scores keys, the three detailed_analysis keys and the two
\* interview_questions keys.
C3_AllKeysPresent == Returned => WellFormed(outcome.v)

ScoreInRange(v) == v.t = "num" /\ v.n \in 0..100

\* C4: in every returned result (of the shape asked for) overall_score and
\* the three track scores are integers in 0..100.
C4_ScoresInRange ==
    (Returned /\ WellFormed(outcome.v))
        => /\ ScoreInRange(Get(outcome.v, "overall_score"))
           /\ \A k \in {"product_based", "service_based", "incubator_startup"} :
                ScoreInRange(Sub(outcome.v, "track_scores", k))

\* C5: a returned result with verdict ERROR has as candidate_name one of the
\* failure-class names Parse Error, API Auth Error, System Error.
C5_ErrorNamesFailureClass ==
    (Returned /\ Field(outcome.v, "verdict") = S("ERROR"))
        => Field(outcome.v, "candidate_name")
            \in {S("Parse Error"), S("API Auth Error"), S("System Error")}

\* the names of the ERROR results analyze_resume_ats builds itself
FailureNames ==
    {S("Parse Error"), S("API Auth Error"), S("System Error"), S("Error: No API Key")}

\* C5 (as the code has it): a returned result with verdict ERROR either has
\* one of the four failure names, Error: No API Key among them, or is the
\* data of the reply itself (parsed, salvaged or synthesized as the minimal
\* payload, then normalized), whose candidate_name is the one of the reply
\* or Unknown.
C5_ErrorResultNames ==
    (Returned /\ Field(outcome.v, "verdict") = S("ERROR"))
        => \/ Field(outcome.v, "candidate_name") \in FailureNames
           \/ response.some /\ NormalizedData(response) = Return(outcome.v)

\* a reply without any JSON: the minimal payload, verdict ERROR, name Unknown
C5_Witness ==
    /\ Returned
    /\ response.some
    /\ Field(outcome.v, "verdict") = S("ERROR")
    /\ Field(outcome.v, "candidate_name") = S("Unknown")

\* C6: after an attempt that failed with a quota error the next attempt is
\* made with the next credential; the remaining models of the credential
\* whose quota is exhausted are not attempted.
C6_QuotaAbandonsCredential ==
    \A i \in 1..(Len(attempts) - 1) :
        attempts[i].outcome = "quota" => attempts[i + 1].key > attempts[i].key

\* the loops ended without a response: every attempt made has failed
Exhausted ==
    /\ pc = "done"
    /\ clients > 0
    /\ ~response.some
    /\ attempts # << >>
    /\ \A i \in 1..Len(attempts) : attempts[i].outcome \in {"auth", "quota", "none"}

\* the class of the overall failure, from the attempts made
Classification ==
    IF \E i \in 1..Len(attempts) : attempts[i].outcome = "quota" THEN "quota_exceeded"
    ELSE IF \E i \in 1..Len(attempts) : attempts[i].outcome = "auth" THEN "auth_error"
    ELSE "call_failed"

\* C7: when every attempt has failed, a failure classified quota_exceeded or
\* call_failed returns the local heuristic result computed from the resume
\* text, with a verdict other than ERROR; a failure classified auth_error,
\* and only that one, returns the API Auth Error result with verdict ERROR.
C7_ExhaustedOutcome ==
    Exhausted =>
        /\ outcome.kind = "return"
        /\ WellFormed(outcome.v)
        /\ IF Classification = "auth_error"
           THEN /\ Get(outcome.v, "candidate_name") = S("API Auth Error")
                /\ Get(outcome.v, "verdict") = S("ERROR")
           ELSE /\ Get(outcome.v, "candidate_name") = _guess_candidate_name(resume_text)
                /\ Get(outcome.v, "candidate_name") # S("API Auth Error")
                /\ Get(outcome.v, "overall_score") = JNum(FallbackScore(resume_text))
                /\ Get(outcome.v, "verdict") \in {S("Shortlist"), S("Borderline"), S("Reject")}

\* both credentials and both models failed, with auth and quota errors mixed,
\* and the local heuristic result was returned
C7_Witness ==
    /\ Exhausted
    /\ clients = 2
    /\ Len(attempts) = 4
    /\ attempts[1].outcome = "auth"
    /\ Classification = "quota_exceeded"
    /\ outcome.kind = "return"
    /\ Get(outcome.v, "verdict") \in {S("Shortlist"), S("Borderline"), S("Reject")}

\* C8: without credentials no attempt is made and the result returned has
\* verdict ERROR and a weaknesses list that carries the message of the failure.
C8_NoCredentialsResult ==
    (pc = "done" /\ clients = 0)
        => /\ attempts = << >>
           /\ outcome.kind = "return"
           /\ Field(outcome.v, "verdict") = S("ERROR")
           /\ NonEmptyList(Sub(outcome.v, "detailed_analysis", "weaknesses"))

\* C9: for every raw text that is not empty the recovery stages yield parsed
\* data, no JSON decode error leaves them, and the Parse Error result is
\* never returned.
C9_RecoveryTotal ==
    (pc = "done" /\ RawText(response) # << >>)
        => /\ RecoverData(CleanText(RawText(response))).kind = "return"
           /\ Field(outcome.v, "candidate_name") # S("Parse Error")

\* the canonical reply cut off inside the value of detailed_analysis
AnalysisStart == Find(JaneText, <<Q, "detailed_analysis", Q>>) + 5

CutInsideAnalysis ==
    {SubSeq(JaneText, 1, k) : k \in AnalysisStart..(AnalysisStart + Len(AnalysisText) - 2)}

\* C10: for the canonical reply cut off inside detailed_analysis the result
\* keeps candidate_name, overall_score and verdict as they stand before the
\* cut, and has empty strengths, weaknesses and actionable_improvements and
\* empty interview question strings.
C10_TruncationSalvage ==
    (pc = "done" /\ response.parts = << >> /\ response.text \in CutInsideAnalysis)
        => /\ outcome.kind = "return"
           /\ Field(outcome.v, "candidate_name") = JStr(<<"Jane", SP, "Doe">>)
           /\ Field(outcome.v, "overall_score") = JNum(75)
           /\ Field(outcome.v, "verdict") = S("Shortlist")
           /\ Sub(outcome.v, "detailed_analysis", "strengths") = JArr(<< >>)
           /\ Sub(outcome.v, "detailed_analysis", "weaknesses") = JArr(<< >>)
           /\ Sub(outcome.v, "detailed_analysis", "actionable_improvements") = JArr(<< >>)
           /\ Sub(outcome.v, "interview_questions", "technical") = EmptyStr
           /\ Sub(outcome.v, "interview_questions", "behavioral") = EmptyStr

\* json.loads of the raw text of the response received
ParsedReply == JsonLoads(RawText(response))

\* C15: when the raw reply is a valid JSON object that already has every
\* required field (the six fields and the keys of the three sections), the
\* direct parse succeeds, the normalizer and the validation leave the data
\* unchanged, and the result returned equals the parsed reply exactly.
C15_CanonicalPassThrough ==
    (pc = "done" /\ response.some) =>
        \E parsed \in {ParsedReply} :
            (parsed.ok /\ WellFormed(parsed.v)) => outcome = Return(parsed.v)

\* the reply with out-of-range scores came back as it was sent
C15_Witness ==
    /\ pc = "done"
    /\ response.some
    /\ RawText(response) =
        CanonicalText(<<"Jane", SP, "Doe">>, "150", "Shortlist", TrackText("72", "150", "80"))
    /\ outcome = Return(ParsedReply.v)
    /\ Field(outcome.v, "overall_score") = JNum(150)

\* what the call returns or raises for the response, the debug file apart
ResultOfResponse == ProcessResponse(response, resume_text)

\* C20: a failure while writing the raw provider text to the debug file
\* never changes the outcome of the call: whether the file was written,
\* could not be opened or was written in part, the call ends as the
\* processing of the response alone decides.
C20_DebugFileBestEffort ==
    (pc = "done" /\ response.some) => outcome = ResultOfResponse

\* the reply was parsed and returned although the debug file could not be
\* opened (it is still absent)
C20_Witness ==
    /\ pc = "done"
    /\ response.some
    /\ Strip(RawText(response)) # << >>
    /\ debug_file = "absent"
    /\ outcome.kind = "return"
    /\ WellFormed(outcome.v)
    /\ Field(outcome.v, "candidate_name") = JStr(<<"Jane", SP, "Doe">>)

\* the call that has just ended went through every credential and model and
\* was classified quota_exceeded
QuotaExceededEnded == Exhausted /\ Classification = "quota_exceeded"

\* a step that starts the next call right after the one that has ended
NextCallStarts == pc = "done" /\ pc' \in {"trying", "done"}

\* the score and the verdict of a result are those of the local heuristic
HeuristicResult(v, resume) ==
    /\ Field(v, "overall_score") = JNum(FallbackScore(resume))
    /\ Field(v, "candidate_name") = _guess_candidate_name(resume)
    /\ Field(v, "verdict") \in {S("Shortlist"), S("Borderline"), S("Reject")}

\* C18: a scoring call that starts while the cooldown of the provider has not
\* elapsed (here: right after a call that ended quota_exceeded, which arms it)
\* makes no provider attempt and returns the result of the local heuristic.
C18_CooldownGate ==
    [][(QuotaExceededEnded /\ NextCallStarts) =>
            /\ pc' = "done"
            /\ attempts' = << >>
            /\ outcome'.kind = "return"
            /\ HeuristicResult(outcome'.v, resume_text')]_vars

\* C19: when a call ends its loops over the credentials and models with the
\* quota_exceeded classification the cooldown is armed, so the scoring call
\* started immediately afterwards is gated: it does not enter the loops.
C19_CooldownArmed ==
    [][(QuotaExceededEnded /\ NextCallStarts) => pc' # "trying"]_vars

\* the errors of the provider by the class the inner except clause gives them
AuthErrors == {e \in ProviderErrors : _is_auth_error(e)}
QuotaErrors == {e \in ProviderErrors : ~_is_auth_error(e) /\ _is_quota_error(e)}

\* the next attempt is made with credential k and model m
NextAttemptAt(k, m) == pc' = "trying" /\ key_index' = k /\ model_index' = m

\* the attempt after (key_index, model_index) is the next model under the
\* same credential, or the first model of the next credential after the last
\* model; after the last pair there is none
NextInOrder ==
    IF model_index < Len(model_candidates) THEN NextAttemptAt(key_index, model_index + 1)
    ELSE IF key_index < clients THEN NextAttemptAt(key_index + 1, 1)
    ELSE pc' = "done"

\* C21: when an attempt (k, m) fails with an auth error the auth-error
\* counter is incremented and the next attempt is the next model under the
\* same credential k, or the first model of the next credential when m was
\* the last model.
C21_AuthFailureTransition ==
    [][(\E e \in AuthErrors : AttemptRaises(e)) =>
            /\ auth_errors' = auth_errors + 1
            /\ quota_errors' = quota_errors
            /\ NextInOrder]_vars

\* two auth failures under the first credential, then the first model of the
\* second credential
C21_Witness ==
    /\ Len(attempts) = 2
    /\ attempts[1] = [key |-> 1, model |-> 1, outcome |-> "auth"]
    /\ attempts[2] = [key |-> 1, model |-> 2, outcome |-> "auth"]
    /\ auth_errors = 2
    /\ pc = "trying"
    /\ key_index = 2
    /\ model_index = 1

\* the provider says that the model asked for does not exist
ModelNotFoundErrors == {e \in ProviderErrors : e.msg = "404 model not found"}

\* the errors that are neither auth, nor quota, nor model-not-found
FatalErrors == (ProviderErrors \ (AuthErrors \cup QuotaErrors)) \ ModelNotFoundErrors

\* C22: when an attempt (k, m) fails with a model-not-found error the call
\* is not aborted: the next attempt is the next model under the same
\* credential k.
C22_ModelUnavailableTransition ==
    [][((\E e \in ModelNotFoundErrors : AttemptRaises(e))
            /\ model_index < Len(model_candidates)) =>
                NextAttemptAt(key_index, model_index + 1)]_vars

\* the last attempt made failed with an error of no class
EndedFatal ==
    /\ attempts # << >>
    /\ attempts[Len(attempts)].outcome = "fatal"

\* C23: when an attempt fails with an error that is neither auth nor quota
\* (nor model-not-found) the call ends there: no further credential x model
\* attempt is made in that call.
C23_FatalErrorTransition ==
    [][/\ (\E e \in FatalErrors : AttemptRaises(e)) =>
                /\ pc' = "done"
                /\ outcome'.kind # "none"
                /\ ~response'.some
       /\ EndedFatal => attempts' \in {attempts, << >>}]_vars

\* the first attempt of two credentials failed with a connection error and
\* the call ended with the System Error result
C23_Witness ==
    /\ pc = "done"
    /\ clients = 2
    /\ attempts = <<[key |-> 1, model |-> 1, outcome |-> "fatal"]>>
    /\ outcome.kind = "return"
    /\ Field(outcome.v, "candidate_name") = S("System Error")
    /\ Sub(outcome.v, "detailed_analysis", "weaknesses")
            = JArr(<<JStr(<<"ConnectionError", ": ", "connection reset">>)>>)

\* the step of an attempt that returned a reply
SucceedsNow ==
    /\ pc = "trying"
    /\ Len(attempts') = Len(attempts) + 1
    /\ attempts'[Len(attempts')].outcome = "success"

\* the last attempt made returned a reply
EndedSuccess ==
    /\ attempts # << >>
    /\ attempts[Len(attempts)].outcome = "success"

\* C24: as soon as one attempt succeeds no later credential x model attempt
\* is made in that call, and the reply that is parsed is the one returned by
\* that first successful attempt: the response is the same when it is
\* processed, and the canonical reply is returned as json.loads reads it.
C24_SuccessTransition ==
    [][/\ SucceedsNow =>
            /\ pc' = "received"
            /\ response'.some
            /\ \A i \in 1..Len(attempts) : attempts[i].outcome # "success"
       /\ EndedSuccess =>
            /\ attempts' \in {attempts, << >>}
            /\ pc = "received" =>
                /\ pc' = "done"
                /\ response' = response
                /\ response.text = JaneText => outcome' = Return(CanonicalData)]_vars

\* the second model of the first credential answered after an auth failure of
\* the first model; the second credential was not used and the reply was
\* parsed and returned
C24_Witness ==
    /\ pc = "done"
    /\ clients = 2
    /\ attempts = <<[key |-> 1, model |-> 1, outcome |-> "auth"],
                    [key |-> 1, model |-> 2, outcome |-> "success"]>>
    /\ response.text = JaneText
    /\ outcome = Return(CanonicalData)

\* how many attempts of the call ended as the word says
Counted(word) == Cardinality({i \in 1..Len(attempts) : attempts[i].outcome = word})

\* the first entry of the weaknesses of a result
FirstWeakness(v) ==
    LET weaknesses == Sub(v, "detailed_analysis", "weaknesses")
    IN IF weaknesses.t = "arr" /\ weaknesses.a # << >> THEN weaknesses.a[1] ELSE JNull

\* the failure a result reports
ReportedFailure(v) ==
    IF Field(v, "candidate_name") = S("API Auth Error") THEN "auth_error"
    ELSE IF FirstWeakness(v) = S("API quota exceeded across available keys/models.")
    THEN "quota_exceeded"
    ELSE IF FirstWeakness(v) = S("API call failed for all key/model combinations.")
    THEN "call_failed"
    ELSE "other"

\* C25: when the loops over the credentials and models end without a reply,
\* the failure is quota_exceeded if at least one quota error was counted, even
\* when auth errors were counted too, else auth_error if at least one auth
\* error was counted, else call_failed.
C25_ExhaustionClassification ==
    Exhausted =>
        /\ quota_errors = Counted("quota")
        /\ auth_errors = Counted("auth")
        /\ outcome.kind = "return"
        /\ ReportedFailure(outcome.v) =
                IF quota_errors > 0 THEN "quota_exceeded"
                ELSE IF auth_errors > 0 THEN "auth_error"
                ELSE "call_failed"

\* one quota error after three auth errors: the failure is quota_exceeded
C25_Witness ==
    /\ Exhausted
    /\ Len(attempts) = 4
    /\ attempts[4].outcome = "quota"
    /\ auth_errors = 3
    /\ quota_errors = 1
    /\ ReportedFailure(outcome.v) = "quota_exceeded"

\* the (credential, model) pairs of the attempts made
PairsOf(made) == {<<made[i].key, made[i].model>> : i \in 1..Len(made)}

\* C26: within one call the attempts are made one at a time, each
\* (credential, model) pair is attempted at most once, and the loops end
\* after at most |credentials| x |models| attempts, whatever the outcomes of
\* the attempts are.
C26_BoundedFailover ==
    [][/\ Len(attempts') <= Len(attempts) + 1
       /\ pc = "trying" =>
            /\ attempts' # attempts
            /\ SubSeq(attempts', 1, Len(attempts)) = attempts
            /\ PairsOf(attempts') = PairsOf(attempts) \cup {<<key_index, model_index>>}
            /\ <<key_index, model_index>> \notin PairsOf(attempts)
            /\ Len(attempts') <= clients * Len(model_candidates)
       /\ pc' = "trying" =>
            /\ key_index' \in 1..clients
            /\ model_index' \in 1..Len(model_candidates)
            /\ <<key_index', model_index'>> \notin PairsOf(attempts')
            /\ Len(attempts') < clients * Len(model_candidates)]_vars

\* every pair of two credentials and two models was attempted, once each,
\* and the last attempt returned a reply
C26_Witness ==
    /\ pc = "received"
    /\ clients = MaxKeys
    /\ Len(attempts) = clients * Len(model_candidates)
    /\ Cardinality(PairsOf(attempts)) = Len(attempts)
    /\ attempts[1].outcome = "quota"
    /\ attempts[Len(attempts)].outcome = "success"

\* the text of the reply that the recovery stages are given
ReplyText == CleanText(RawText(response))

\* the repair normalization stage: the parse of the repaired text, which is
\* the extracted object when there is one and the whole text otherwise
RepairStage(clean_text, extracted) ==
    JsonLoads(_repair_common_json_issues(IF extracted.some THEN extracted.s ELSE clean_text))

\* the data of the first stage that yields some, the stages taken in the
\* order: direct parse, balanced-object extraction, repair normalization,
\* partial-section salvage, minimal-payload synthesis
StagesInOrder(clean_text) ==
    LET direct == JsonLoads(clean_text)
        repaired == RepairStage(clean_text, _extract_first_json_object(clean_text))
        salvaged == _salvage_without_detailed_analysis(clean_text)
    IN IF direct.ok THEN direct.v
       ELSE IF repaired.ok THEN repaired.v
       ELSE IF salvaged.some THEN salvaged.v
       ELSE _salvage_minimal_ats_payload(clean_text)

\* C27: the recovery stages run in the order direct parse, balanced-object
\* extraction, repair normalization, partial-section salvage, minimal-payload
\* synthesis; a stage runs only if every stage before it failed, and when a
\* stage fails the next one is tried: the data recovered are those of the
\* first stage in that order that yields some.
C27_RecoveryStageOrder ==
    (pc = "done" /\ ReplyText # << >>)
        => RecoverData(ReplyText) = Return(StagesInOrder(ReplyText))

\* the reply text ends with the trailing prose; the text before the prose
EndsWithProse(t) ==
    /\ Len(t) > Len(TrailingProse)
    /\ SubSeq(t, Len(t) - Len(TrailingProse) + 1, Len(t)) = TrailingProse

BeforeProse(t) == SubSeq(t, 1, Len(t) - Len(TrailingProse))

\* C28: when the raw reply is a valid JSON object followed by trailing prose
\* the data recovered equal that object exactly: every key and every string
\* value is as json.loads reads it from the object alone, also when a string
\* value holds a comma before "}" or "]" or typographic quotes.
C28_ObjectFollowedByProse ==
    (pc = "done" /\ EndsWithProse(ReplyText)) =>
        \E object \in {JsonLoads(BeforeProse(ReplyText))} :
            (object.ok /\ IsDict(object.v)) => RecoverData(ReplyText) = Return(object.v)

\* ------------------------------------------------------------------------
\* Properties of the helper functions
\* ------------------------------------------------------------------------
Applied(f) == fn = f /\ ret.kind # "none"

\* the index of the first "{" of the argument, 0 when there is none
FirstBrace == Find(arg, <<LB>>)

\* the argument from its first "{" to the "}" at index e is a JSON object by
\* json.loads
ObjectEndsAt(e) ==
    /\ arg[e] = RB
    /\ \E d \in {JsonLoads(SubSeq(arg, FirstBrace, e))} : d.ok /\ IsDict(d.v)

\* the argument is A + an object cut short: some sample object continues it
CutShort ==
    /\ FirstBrace # 0
    /\ \E o \in ExtractObjects :
        \E k \in 1..(Len(o) - 1) :
            SubSeq(arg, FirstBrace, Len(arg)) = SubSeq(o, 1, k)

\* C11: for text A + obj + B with obj a valid JSON object (braces and escaped
\* quotes inside its strings allowed) and no "{" in A, the extraction returns
\* exactly obj; it returns None when the text has no "{" or the depth never
\* returns to zero (the object is cut short).
C11_BalancedExtraction ==
    Applied("_extract_first_json_object") =>
        /\ FirstBrace # 0 =>
            \A e \in FirstBrace..Len(arg) :
                ObjectEndsAt(e) => ret = Return(SomeStr(SubSeq(arg, FirstBrace, e)))
        /\ (FirstBrace = 0 \/ CutShort) => ret = Return(NoneStr)

\* an object with an escaped quote and a brace in a string, between prose, extracted
C11_Witness ==
    /\ Applied("_extract_first_json_object")
    /\ arg = <<"Here", SP, "is", CL, NL>> \o ObjText(<<KV("a", StrLit(<<"q", BS, Q, RB>>))>>)
                \o <<NL, "Hope", SP, "this", SP, "helps">>
    /\ ret = Return(SomeStr(ObjText(<<KV("a", StrLit(<<"q", BS, Q, RB>>))>>)))

\* the comma at index i of t is followed, after optional whitespace, by "}" or "]"
CommaBeforeCloser(t, i) ==
    /\ t[i] = CM
    /\ \E j \in {SkipWs(t, i + 1)} : j <= Len(t) /\ t[j] \in {RB, RK}

TrailingComma(t) == \E i \in 1..Len(t) : CommaBeforeCloser(t, i)

\* a comma followed, after optional whitespace, by a comma before a closer
RepeatedTrailingComma(t) ==
    \E i \in 1..Len(t) :
        /\ t[i] = CM
        /\ \E j \in {SkipWs(t, i + 1)} : j <= Len(t) /\ CommaBeforeCloser(t, j)

\* C12 as stated: the output of _repair_common_json_issues holds no comma
\* followed, after optional whitespace, by "}" or "]", whatever the input,
\* several consecutive commas before a closer included.
C12_NoTrailingComma ==
    Applied("_repair_common_json_issues") => ~TrailingComma(ret.v.s)

\* C12, amended: the output holds no comma followed, after optional
\* whitespace, by "}" or "]" when the input has no comma followed, after
\* optional whitespace, by a second comma before a closer; of several
\* consecutive commas before a closer only the last is removed, so the
\* output then still holds one.
C12_SingleTrailingCommaRemoved ==
    Applied("_repair_common_json_issues") =>
        (TrailingComma(ret.v.s) <=> RepeatedTrailingComma(arg))

\* the example of the docstring: { "a": 5, } gives {"a": 5 }
C12_Witness ==
    /\ Applied("_repair_common_json_issues")
    /\ arg = <<LB, SP, Q, "a", Q, CL, SP, "5", CM, SP, RB>>
    /\ ret = Return(JStr(<<LB, SP, Q, "a", Q, CL, SP, "5", RB>>))

\* _normalize_to_ats_schema applied to what _normalize_to_ats_schema(x) gave
\* (an exception of the first call is the outcome of both)
NormalizedTwice(x) ==
    \E once \in {_normalize_to_ats_schema(x)} :
        IF once.kind = "raise" THEN ret = once
        ELSE ret = _normalize_to_ats_schema(once.v)

\* C13: normalization is idempotent: for every input x (ATS mapping, legacy
\* mapping, mapping of unknown shape, no mapping) normalizing the normalized
\* x gives what normalizing x gave.
C13_NormalizeIdempotent ==
    Applied("_normalize_to_ats_schema") => NormalizedTwice(arg)

\* a legacy mapping was remapped (the result differs from the argument)
C13_Witness ==
    /\ Applied("_normalize_to_ats_schema")
    /\ arg = LegacyData(JNum(90), S("PASS"), JArr(<<S("a")>>))
    /\ ret.kind = "return"
    /\ ret.v # arg
    /\ Field(ret.v, "overall_score") = JNum(90)

\* x takes the legacy branch: signal_score with red_flags or brutal_feedback,
\* and not already the ATS schema
LegacyShaped(x) ==
    /\ IsDict(x)
    /\ HasKey(x, "signal_score")
    /\ HasKey(x, "red_flags") \/ HasKey(x, "brutal_feedback")
    /\ ~HasKeys(x, {"overall_score", "track_scores", "detailed_analysis"})

\* the score as a number: a string of digits counts as its value
SameScore(out, score) ==
    \/ out = score
    \/ /\ score.t = "str" /\ Len(score.s) = 1 /\ score.s[1] \in DigitAtoms
       /\ out = JNum(DigitVal(score.s[1]))

\* the verdict the legacy value stands for, case-insensitively; Reject for
\* every value that is not recognized
RemappedVerdict(v) ==
    IF v.t # "str" THEN "Reject"
    ELSE LET low == LowerStr(Strip(v.s))
         IN IF low \in {<<"pass">>, <<"shortlist">>} THEN "Shortlist"
            ELSE IF low = <<"borderline">> THEN "Borderline"
            ELSE IF low = <<"error">> THEN "ERROR"
            ELSE "Reject"

\* C14: for every legacy-shaped mapping the normalizer output has
\* overall_score and the three track scores equal to the input signal_score,
\* a verdict of Shortlist, Borderline, Reject or ERROR obtained
\* case-insensitively (PASS and SHORTLIST give Shortlist, unrecognized values
\* give Reject), and weaknesses equal to the red_flags list, or a single
\* placeholder when that list is empty.
C14_LegacyRemap ==
    (Applied("_normalize_to_ats_schema") /\ LegacyShaped(arg)) =>
        /\ ret.kind = "return"
        /\ SameScore(Field(ret.v, "overall_score"), Get(arg, "signal_score"))
        /\ \A k \in {"product_based", "service_based", "incubator_startup"} :
                SameScore(Sub(ret.v, "track_scores", k), Get(arg, "signal_score"))
        /\ Field(ret.v, "verdict") = S(RemappedVerdict(GetOrNone(arg, "verdict")))
        /\ IF NonEmptyList(GetOrNone(arg, "red_flags"))
           THEN Sub(ret.v, "detailed_analysis", "weaknesses") = Get(arg, "red_flags")
           ELSE \E w \in {Sub(ret.v, "detailed_analysis", "weaknesses")} :
                    w.t = "arr" /\ Len(w.a) = 1

\* the required keys, in the order the validation checks them
checking_order ==
    required_fields \o section_fields.track_scores \o section_fields.detailed_analysis
        \o section_fields.interview_questions

\* the required key at place i of the checking order is absent from data
AbsentAt(data, i) ==
    IF i <= Len(required_fields) THEN ~(IsDict(data) /\ HasKey(data, checking_order[i]))
    ELSE \E sec \in Sections :
            /\ \E j \in 1..Len(section_fields[sec]) : section_fields[sec][j] = checking_order[i]
            /\ ~HasKeys(Field(data, sec), {checking_order[i]})

MissingPlaces(data) == {i \in 1..Len(checking_order) : AbsentAt(data, i)}

FirstMissing(data) == checking_order[MinOf(MissingPlaces(data))]

\* the field names a message of the validation holds
NamedIn(msg) ==
    {f \in SeqRange(required_fields) : msg = MissingFieldMsg(f)}
        \cup {sec \in Sections :
                msg \in {"track_scores missing required fields",
                         "detailed_analysis missing required fields",
                         "interview_questions missing required fields"}
                /\ \/ sec = "track_scores" /\ msg = "track_scores missing required fields"
                   \/ sec = "detailed_analysis" /\ msg = "detailed_analysis missing required fields"
                   \/ sec = "interview_questions" /\ msg = "interview_questions missing required fields"}

\* data is a mapping, and so is each of the three sections it holds
MappingOfMappings(data) ==
    /\ IsDict(data)
    /\ \A sec \in Sections : HasKey(data, sec) => IsDict(Get(data, sec))

\* C16: when any required key is absent (one of the six top-level fields,
\* the three track_scores keys, the three detailed_analysis keys or the two
\* interview_questions keys), the validation fails and its failure names the
\* first missing field in checking order.
C16_NamesFirstMissingField ==
    (Applied("validate") /\ MappingOfMappings(arg) /\ MissingPlaces(arg) # {}) =>
        /\ ret.kind = "raise"
        /\ FirstMissing(arg) \in NamedIn(ret.msg)

\* the number held by a field of the result, -1 when it holds none
NumberAt(v) == IF v.t = "num" THEN v.n ELSE -1

\* C17: for every resume text (the empty one and None included) and every
\* reason, _local_ats_fallback returns overall_score within 30..82 and the
\* three track scores within 0..100, the tracks being overall_score - 2,
\* overall_score + 2 and overall_score + 1.
C17_FallbackBounded ==
    Applied("_local_ats_fallback") =>
        \E score \in {NumberAt(Field(ret.v, "overall_score"))} :
            /\ score \in 30..82
            /\ Sub(ret.v, "track_scores", "product_based") = JNum(score - 2)
            /\ Sub(ret.v, "track_scores", "service_based") = JNum(score + 2)
            /\ Sub(ret.v, "track_scores", "incubator_startup") = JNum(score + 1)
            /\ \A k \in SeqRange(section_fields.track_scores) :
                    NumberAt(Sub(ret.v, "track_scores", k)) \in 0..100

\* a resume holding every group of keywords: 97 clamped to 82
C17_Witness ==
    /\ Applied("_local_ats_fallback")
    /\ arg.resume_text = <<"Jane", SP, "Doe", NL>>
            \o KeywordText(<<"intern", "github", "project", "python", "leetcode", "aws">>,
                           [i \in 1..6 |-> TRUE])
    /\ Field(ret.v, "overall_score") = JNum(82)
    /\ Sub(ret.v, "track_scores", "service_based") = JNum(84)


\* some place of the text matches  "key"\s*:\s*  followed by a character of
\* firsts (a quote, or a digit)
PatternFound(text, key, firsts) ==
    \E i \in 1..(Len(text) - 2) :
        /\ text[i] = Q
        /\ text[i + 1] = key
        /\ text[i + 2] = Q
        /\ \E c \in (i + 3)..Len(text) :
            /\ text[c] = CL
            /\ \A w \in (i + 3)..(c - 1) : text[w] \in Whitespace
            /\ \E q \in (c + 1)..Len(text) :
                /\ text[q] \in firsts
                /\ \A w \in (c + 1)..(q - 1) : text[w] \in Whitespace

\* a list with exactly one entry, a string that is not empty
OneString(v) ==
    /\ v.t = "arr"
    /\ Len(v.a) = 1
    /\ v.a[1].t = "str"
    /\ v.a[1].s # << >>

\* C29: for every text _salvage_minimal_ats_payload returns, without failing,
\* a result whose three track scores all equal its overall_score, whose
\* strengths list is empty and whose weaknesses list has exactly one
\* diagnostic string; candidate_name, overall_score and verdict are "Unknown",
\* 0 and "ERROR" when their pattern is not found in the text.
C29_MinimalPayloadSynthesis ==
    Applied("_salvage_minimal_ats_payload") =>
        /\ ret.kind = "return"
        /\ WellFormed(ret.v)
        /\ Field(ret.v, "overall_score").t = "num"
        /\ \A track \in {"product_based", "service_based", "incubator_startup"} :
                Sub(ret.v, "track_scores", track) = Field(ret.v, "overall_score")
        /\ Sub(ret.v, "detailed_analysis", "strengths") = JArr(<< >>)
        /\ OneString(Sub(ret.v, "detailed_analysis", "weaknesses"))
        /\ ~PatternFound(arg, "candidate_name", {Q})
                => Field(ret.v, "candidate_name") = S("Unknown")
        /\ ~PatternFound(arg, "overall_score", DigitAtoms)
                => Field(ret.v, "overall_score") = JNum(0)
        /\ ~PatternFound(arg, "verdict", {Q})
                => Field(ret.v, "verdict") = S("ERROR")

\* a text with a score of 75 and neither a name nor the value of a verdict:
\* the track scores are 75 and the two other fields have their defaults
C29_Witness ==
    /\ Applied("_salvage_minimal_ats_payload")
    /\ ~PatternFound(arg, "candidate_name", {Q})
    /\ ~PatternFound(arg, "verdict", {Q})
    /\ PatternFound(arg, "overall_score", DigitAtoms)
    /\ Field(ret.v, "candidate_name") = S("Unknown")
    /\ Field(ret.v, "verdict") = S("ERROR")
    /\ Field(ret.v, "overall_score") = JNum(75)
    /\ Sub(ret.v, "track_scores", "service_based") = JNum(75)

====
